---- MODULE Spec2Model ----
(***************************************************************************)
(* Model of the campaign knowledge base (backend/src/knowledge_base.py):   *)
(* the SQLite fact store (knowledge_items, sources, knowledge_fts), the    *)
(* statement-level transaction of add_knowledge_item, the two-statement    *)
(* read of get_item_by_id, and the multi-stage search_knowledge.           *)
(*                                                                         *)
(* Text is modelled character by character: a Python str is a sequence of  *)
(* one-character strings, so lower(), split(), isalnum(), json.dumps, the  *)
(* FTS5 tokenizer and LIKE are computed as the code computes them.         *)
(* Scores are exact fractions [n, d] in lowest terms; the code's floats    *)
(* differ from them by rounding only (0.7 * 0.8 is 0.5599999999999999).    *)
(***************************************************************************)
EXTENDS Integers, Sequences, FiniteSets, TLC

VARIABLES
    items,      \* knowledge_items rows, committed, in rowid order
    sources,    \* sources rows, committed, in rowid order
    fts,        \* knowledge_fts rows, committed, in rowid order
    lock,       \* the connection holding SQLite's write lock, or NoOne
    wpc,        \* per writer: next statement of add_knowledge_item
    witem,      \* per writer: the KnowledgeItem passed to the call
    wk,         \* per writer: index of the next source to insert (kept after the return)
    pending,    \* per writer: the uncommitted state of its transaction
    wret,       \* per writer: "True" or "False" as returned by its last call, "running" during one
    calls,      \* number of add_knowledge_item calls started
    lastGood,   \* history: id -> payload of the last committed upsert
    committed,  \* history: the payloads of the calls that returned True
    rpc,        \* reader (get_item_by_id): next statement
    rid,        \* reader: the id asked for
    rrow,       \* reader: the item row fetched by the first statement
    rret,       \* reader: the KnowledgeItem returned by the last get_item_by_id, NoItem for None
    sin,        \* search_knowledge: the arguments of the last call
    smatch,     \* search_knowledge: the (id, score) of the matches each stage returned
    sout,       \* search_knowledge: what the last call returned
    gpc,        \* generate_response: the next step of the call
    gctx,       \* generate_response: the ResponseContext passed to the call
    gfacts,     \* generate_response: relevant_facts, the selection of _filter_relevant_facts
    gcalls,     \* generate_response: the models called so far, in order, each with its outcome
    gtext,      \* generate_response: the text the model chain returned
    gout,       \* generate_response: the dict the last call returned
    dtext,      \* detect_language: the text of the last call
    dlang,      \* detect_language: the code it returned, "none" before the call
    bpc,        \* the system process: "down", or "up" once constructed
    boots,      \* number of constructions of the system started
    bloaded,    \* whether the last construction ran the data loader
    bstats,     \* what get_statistics returned, if called since the last write or start
    bgood,      \* history: id -> payload of the last add of this model that returned True
    bfailed     \* history: whether an add of this model returned False

vars == <<items, sources, fts, lock, wpc, witem, wk, pending, wret, calls,
          lastGood, committed, rpc, rid, rrow, rret, sin, smatch, sout,
          gpc, gctx, gfacts, gcalls, gtext, gout, dtext, dlang,
          bpc, boots, bloaded, bstats, bgood, bfailed>>

storeVars == <<items, sources, fts>>
writerVars == <<lock, wpc, witem, wk, pending, wret, calls, lastGood, committed>>
readerVars == <<rpc, rid, rrow, rret>>
searchVars == <<sin, smatch, sout>>
genVars == <<gpc, gctx, gfacts, gcalls, gtext, gout>>
\* what the knowledge base's own operations never touch
langVars == <<dtext, dlang>>
bootVars == <<bpc, boots, bloaded, bstats, bgood, bfailed>>
otherVars == <<genVars, langVars, bootVars>>

----------------------------------------------------------------------------
(* Bounds of the model *)

\* add_knowledge_item calls started in one behaviour
MaxUpserts == 3
\* largest result limit passed to search_knowledge (the smallest is -1)
MaxLimit == 2

----------------------------------------------------------------------------
(* Characters and strings *)

NULL == "NULL"
NoOne == "NoOne"
\* None in a text column (no text of the model is the empty string)
NullText == <<>>
\* None where a KnowledgeItem or a row is expected
NoItem == [id |-> NULL]
\* no transaction open
NoTxn == [txn |-> NULL]
\* no search made
NoSearch == [query |-> NULL]
\* what a stage evaluates to: the list it returns, or the exception that a
\* statement or a row reconstruction in it raises
Returns(rows) == [raised |-> FALSE, rows |-> rows]
Raised == [raised |-> TRUE, rows |-> <<>>]
\* the matches of the four stages of a search, none having run
NoMatches == [raised |-> FALSE, exact |-> <<>>, fts |-> <<>>, topic |-> <<>>, expanded |-> <<>>]

Uppers == <<"A","B","C","D","E","F","G","H","I","J","K","L","M",
            "N","O","P","Q","R","S","T","U","V","W","X","Y","Z">>
Lowers == <<"a","b","c","d","e","f","g","h","i","j","k","l","m",
            "n","o","p","q","r","s","t","u","v","w","x","y","z">>
Accented == <<"á","é","í","ó","ú","ñ","ü","ô","ç","à","è">>
Unaccented == <<"a","e","i","o","u","n","u","o","c","a","e">>
\* code points of the non-ASCII characters, as json.dumps writes them
CodePoints == <<
    <<"0","0","e","1">>, <<"0","0","e","9">>, <<"0","0","e","d">>,
    <<"0","0","f","3">>, <<"0","0","f","a">>, <<"0","0","f","1">>,
    <<"0","0","f","c">>, <<"0","0","f","4">>, <<"0","0","e","7">>,
    <<"0","0","e","0">>, <<"0","0","e","8">>, <<"0","0","b","f">> >>
NonAscii == Accented \o <<"¿">>
Digits == {"0","1","2","3","4","5","6","7","8","9"}

Range(s) == {s[i] : i \in 1..Len(s)}

IndexOf(s, c) == CHOOSE i \in 1..Len(s) : s[i] = c

UpperSet == Range(Uppers)
AccentedSet == Range(Accented)
NonAsciiSet == Range(NonAscii)
AlnumSet == Range(Lowers) \cup UpperSet \cup AccentedSet \cup Digits
LowerOf == [c \in UpperSet |-> Lowers[IndexOf(Uppers, c)]]
UnaccentedOf == [c \in AccentedSet |-> Unaccented[IndexOf(Accented, c)]]

\* str.isalnum() of one character
IsAlnum(c) == c \in AlnumSet

IsSpace(c) == c = " "

\* str.lower() of one character
LowerChar(c) == IF c \in UpperSet THEN LowerOf[c] ELSE c

\* a faulty lower() that changes nothing
KeepCase(s) == s

\* str.lower()
StrLower(s) == [i \in 1..Len(s) |-> LowerChar(s[i])]

\* a faulty label that keeps its underscores
KeepUnderscore(s) == s

\* str.replace("_", " ")
ReplaceUnderscore(s) == [i \in 1..Len(s) |-> IF s[i] = "_" THEN " " ELSE s[i]]

RECURSIVE SplitFrom(_, _, _, _)
SplitFrom(s, i, cur, acc) ==
    IF i > Len(s)
    THEN IF cur = <<>> THEN acc ELSE Append(acc, cur)
    ELSE IF IsSpace(s[i])
         THEN SplitFrom(s, i + 1, <<>>, IF cur = <<>> THEN acc ELSE Append(acc, cur))
         ELSE SplitFrom(s, i + 1, Append(cur, s[i]), acc)

\* str.split(): the maximal runs of non-whitespace characters, in order
Split(s) == SplitFrom(s, 1, <<>>, <<>>)

RECURSIVE Join(_, _)
\* sep.join(words)
Join(words, sep) ==
    IF words = <<>> THEN <<>>
    ELSE IF Len(words) = 1 THEN words[1]
    ELSE words[1] \o sep \o Join(Tail(words), sep)

\* sub in s (substring test)
Contains(s, sub) ==
    \E i \in 0..(Len(s) - Len(sub)) :
        \A j \in 1..Len(sub) : s[i + j] = sub[j]

RECURSIVE SelectSeqOf(_, _)
\* [x for x in s if x not in drop]
SelectSeqOf(s, drop) ==
    IF s = <<>> THEN <<>>
    ELSE IF Head(s) \in drop THEN SelectSeqOf(Tail(s), drop)
    ELSE <<Head(s)>> \o SelectSeqOf(Tail(s), drop)

\* s[:n] of Python, n of either sign
Take(s, n) ==
    IF n >= 0
    THEN SubSeq(s, 1, IF n < Len(s) THEN n ELSE Len(s))
    ELSE SubSeq(s, 1, IF Len(s) + n > 0 THEN Len(s) + n ELSE 0)

----------------------------------------------------------------------------
(* Scores: exact fractions in lowest terms *)

RECURSIVE Gcd(_, _)
Gcd(a, b) == IF b = 0 THEN a ELSE Gcd(b, a % b)

Frac(n, d) == LET g == Gcd(n, d) IN [n |-> n \div g, d |-> d \div g]

FMul(a, b) == Frac(a.n * b.n, a.d * b.d)

FLess(a, b) == a.n * b.d < b.n * a.d

FLeq(a, b) == a.n * b.d <= b.n * a.d

----------------------------------------------------------------------------
(* Static tables of KnowledgeBaseManager *)

\* self.topic_hierarchy, in the dict's order
TopicHierarchy == <<
    [topic |-> <<"e","d","u","c","a","t","i","o","n">>,
     subtopics |-> <<<<"s","c","h","o","o","l","_","b","u","d","g","e","t">>,
                   <<"t","e","a","c","h","e","r","_","p","a","y">>,
                   <<"g","r","a","d","u","a","t","i","o","n","_","r","a","t","e","s">>,
                   <<"s","c","h","o","o","l","_","s","a","f","e","t","y">>,
                   <<"c","u","r","r","i","c","u","l","u","m">>>>],
    [topic |-> <<"h","o","u","s","i","n","g">>,
     subtopics |-> <<<<"a","f","f","o","r","d","a","b","l","e","_","h","o","u","s","i","n","g">>,
                   <<"r","e","n","t","_","c","o","n","t","r","o","l">>,
                   <<"z","o","n","i","n","g">>,
                   <<"d","e","v","e","l","o","p","m","e","n","t">>,
                   <<"h","o","m","e","l","e","s","s","n","e","s","s">>>>],
    [topic |-> <<"t","r","a","n","s","p","o","r","t","a","t","i","o","n">>,
     subtopics |-> <<<<"b","u","s","_","s","e","r","v","i","c","e">>,
                   <<"b","i","k","e","_","l","a","n","e","s">>,
                   <<"t","r","a","f","f","i","c">>,
                   <<"p","a","r","k","i","n","g">>,
                   <<"c","o","n","g","e","s","t","i","o","n","_","p","r","i","c","i","n","g">>>>],
    [topic |-> <<"p","u","b","l","i","c","_","s","a","f","e","t","y">>,
     subtopics |-> <<<<"p","o","l","i","c","e","_","r","e","f","o","r","m">>,
                   <<"c","r","i","m","e","_","p","r","e","v","e","n","t","i","o","n">>,
                   <<"c","o","m","m","u","n","i","t","y","_","p","o","l","i","c","i","n","g">>,
                   <<"e","m","e","r","g","e","n","c","y","_","s","e","r","v","i","c","e","s">>>>],
    [topic |-> <<"e","c","o","n","o","m","y">>,
     subtopics |-> <<<<"j","o","b","_","c","r","e","a","t","i","o","n">>,
                   <<"s","m","a","l","l","_","b","u","s","i","n","e","s","s">>,
                   <<"t","a","x","a","t","i","o","n">>,
                   <<"b","u","d","g","e","t">>,
                   <<"d","e","v","e","l","o","p","m","e","n","t">>>>],
    [topic |-> <<"e","n","v","i","r","o","n","m","e","n","t">>,
     subtopics |-> <<<<"c","l","i","m","a","t","e","_","c","h","a","n","g","e">>,
                   <<"g","r","e","e","n","_","e","n","e","r","g","y">>,
                   <<"s","u","s","t","a","i","n","a","b","i","l","i","t","y">>,
                   <<"p","o","l","l","u","t","i","o","n">>,
                   <<"p","a","r","k","s">>>>],
    [topic |-> <<"h","e","a","l","t","h","c","a","r","e">>,
     subtopics |-> <<<<"p","u","b","l","i","c","_","h","e","a","l","t","h">>,
                   <<"m","e","n","t","a","l","_","h","e","a","l","t","h">>,
                   <<"h","e","a","l","t","h","c","a","r","e","_","a","c","c","e","s","s">>,
                   <<"i","n","s","u","r","a","n","c","e">>>>],
    [topic |-> <<"g","o","v","e","r","n","a","n","c","e">>,
     subtopics |-> <<<<"t","r","a","n","s","p","a","r","e","n","c","y">>,
                   <<"a","c","c","o","u","n","t","a","b","i","l","i","t","y">>,
                   <<"e","t","h","i","c","s">>,
                   <<"c","i","v","i","c","_","e","n","g","a","g","e","m","e","n","t">>>>] >>

\* self.multilingual_keywords, in the dict's order (the "ar" lists are left out:
\* the model never searches in Arabic)
MultilingualKeywords == <<
    [en |-> <<<<"e","d","u","c","a","t","i","o","n">>,
            <<"s","c","h","o","o","l","s">>,
            <<"t","e","a","c","h","e","r","s">>,
            <<"s","t","u","d","e","n","t","s">>,
            <<"l","e","a","r","n","i","n","g">>,
            <<"g","r","a","d","u","a","t","i","o","n">>,
            <<"c","l","a","s","s","r","o","o","m">>>>,
     es |-> <<<<"e","d","u","c","a","c","i","ó","n">>,
            <<"e","s","c","u","e","l","a","s">>,
            <<"m","a","e","s","t","r","o","s">>,
            <<"e","s","t","u","d","i","a","n","t","e","s">>,
            <<"a","p","r","e","n","d","i","z","a","j","e">>,
            <<"g","r","a","d","u","a","c","i","ó","n">>,
            <<"a","u","l","a">>>>,
     fr |-> <<<<"é","d","u","c","a","t","i","o","n">>,
            <<"é","c","o","l","e","s">>,
            <<"e","n","s","e","i","g","n","a","n","t","s">>,
            <<"é","t","u","d","i","a","n","t","s">>,
            <<"a","p","p","r","e","n","t","i","s","s","a","g","e">>,
            <<"d","i","p","l","ô","m","a","t","i","o","n">>,
            <<"s","a","l","l","e"," ","d","e"," ","c","l","a","s","s","e">>>>],
    [en |-> <<<<"h","o","u","s","i","n","g">>,
            <<"r","e","n","t">>,
            <<"a","f","f","o","r","d","a","b","l","e">>,
            <<"a","p","a","r","t","m","e","n","t","s">>,
            <<"h","o","m","e","s">>,
            <<"r","e","a","l"," ","e","s","t","a","t","e">>,
            <<"l","a","n","d","l","o","r","d">>>>,
     es |-> <<<<"v","i","v","i","e","n","d","a">>,
            <<"a","l","q","u","i","l","e","r">>,
            <<"a","s","e","q","u","i","b","l","e">>,
            <<"a","p","a","r","t","a","m","e","n","t","o","s">>,
            <<"c","a","s","a","s">>,
            <<"b","i","e","n","e","s"," ","r","a","í","c","e","s">>,
            <<"p","r","o","p","i","e","t","a","r","i","o">>>>,
     fr |-> <<<<"l","o","g","e","m","e","n","t">>,
            <<"l","o","y","e","r">>,
            <<"a","b","o","r","d","a","b","l","e">>,
            <<"a","p","p","a","r","t","e","m","e","n","t","s">>,
            <<"m","a","i","s","o","n","s">>,
            <<"i","m","m","o","b","i","l","i","e","r">>,
            <<"p","r","o","p","r","i","é","t","a","i","r","e">>>>],
    [en |-> <<<<"t","r","a","n","s","p","o","r","t","a","t","i","o","n">>,
            <<"t","r","a","n","s","i","t">>,
            <<"b","u","s","e","s">>,
            <<"t","r","a","i","n","s">>,
            <<"t","r","a","f","f","i","c">>,
            <<"r","o","a","d","s">>,
            <<"p","u","b","l","i","c"," ","t","r","a","n","s","p","o","r","t">>>>,
     es |-> <<<<"t","r","a","n","s","p","o","r","t","e">>,
            <<"t","r","á","n","s","i","t","o">>,
            <<"a","u","t","o","b","u","s","e","s">>,
            <<"t","r","e","n","e","s">>,
            <<"t","r","á","f","i","c","o">>,
            <<"c","a","r","r","e","t","e","r","a","s">>,
            <<"t","r","a","n","s","p","o","r","t","e"," ","p","ú","b","l","i","c","o">>>>,
     fr |-> <<<<"t","r","a","n","s","p","o","r","t">>,
            <<"t","r","a","n","s","i","t">>,
            <<"a","u","t","o","b","u","s">>,
            <<"t","r","a","i","n","s">>,
            <<"c","i","r","c","u","l","a","t","i","o","n">>,
            <<"r","o","u","t","e","s">>,
            <<"t","r","a","n","s","p","o","r","t"," ","p","u","b","l","i","c">>>>],
    [en |-> <<<<"s","a","f","e","t","y">>,
            <<"c","r","i","m","e">>,
            <<"p","o","l","i","c","e">>,
            <<"s","e","c","u","r","i","t","y">>,
            <<"v","i","o","l","e","n","c","e">>,
            <<"l","a","w"," ","e","n","f","o","r","c","e","m","e","n","t">>>>,
     es |-> <<<<"s","e","g","u","r","i","d","a","d">>,
            <<"c","r","i","m","e","n">>,
            <<"p","o","l","i","c","í","a">>,
            <<"s","e","g","u","r","i","d","a","d">>,
            <<"v","i","o","l","e","n","c","i","a">>,
            <<"a","p","l","i","c","a","c","i","ó","n"," ","d","e"," ","l","a"," ","l","e","y">>>>,
     fr |-> <<<<"s","é","c","u","r","i","t","é">>,
            <<"c","r","i","m","e">>,
            <<"p","o","l","i","c","e">>,
            <<"s","é","c","u","r","i","t","é">>,
            <<"v","i","o","l","e","n","c","e">>,
            <<"a","p","p","l","i","c","a","t","i","o","n"," ","d","e"," ","l","a"," ","l","o","i">>>>],
    [en |-> <<<<"e","c","o","n","o","m","y">>,
            <<"j","o","b","s">>,
            <<"e","m","p","l","o","y","m","e","n","t">>,
            <<"w","a","g","e","s">>,
            <<"b","u","s","i","n","e","s","s">>,
            <<"t","a","x","e","s">>,
            <<"b","u","d","g","e","t">>>>,
     es |-> <<<<"e","c","o","n","o","m","í","a">>,
            <<"e","m","p","l","e","o","s">>,
            <<"e","m","p","l","e","o">>,
            <<"s","a","l","a","r","i","o","s">>,
            <<"n","e","g","o","c","i","o","s">>,
            <<"i","m","p","u","e","s","t","o","s">>,
            <<"p","r","e","s","u","p","u","e","s","t","o">>>>,
     fr |-> <<<<"é","c","o","n","o","m","i","e">>,
            <<"e","m","p","l","o","i","s">>,
            <<"e","m","p","l","o","i">>,
            <<"s","a","l","a","i","r","e","s">>,
            <<"e","n","t","r","e","p","r","i","s","e","s">>,
            <<"t","a","x","e","s">>,
            <<"b","u","d","g","e","t">>>>] >>

\* stop_words of _normalize_query (the "ar" list is left out)
StopWords ==
    [en |-> {<<"t","h","e">>,
            <<"i","s">>,
            <<"a","r","e">>,
            <<"w","a","s">>,
            <<"w","e","r","e">>,
            <<"w","i","l","l">>,
            <<"w","o","u","l","d">>,
            <<"s","h","o","u","l","d">>,
            <<"c","o","u","l","d">>},
     es |-> {<<"e","l">>,
            <<"l","a">>,
            <<"l","o","s">>,
            <<"l","a","s">>,
            <<"e","s">>,
            <<"s","o","n">>,
            <<"f","u","e">>,
            <<"f","u","e","r","o","n">>,
            <<"s","e","r","á">>},
     fr |-> {<<"l","e">>,
            <<"l","a">>,
            <<"l","e","s">>,
            <<"e","s","t">>,
            <<"s","o","n","t">>,
            <<"é","t","a","i","t">>,
            <<"é","t","a","i","e","n","t">>,
            <<"s","e","r","a">>}]

----------------------------------------------------------------------------
(* Enumerations and column encodings *)

\* ContentType: member name -> value
ContentType ==
    [POLICY |-> "policy", BIOGRAPHY |-> "biography", SPEECH |-> "speech",
     VOTING_RECORD |-> "voting_record", POSITION_STATEMENT |-> "position_statement",
     FAQ |-> "faq", NEWS_ARTICLE |-> "news_article",
     CAMPAIGN_EVENT |-> "campaign_event", ENDORSEMENT |-> "endorsement"]

\* SourceCredibility: member name -> value
SourceCredibility ==
    [PRIMARY |-> "primary", VERIFIED |-> "verified",
     SECONDARY |-> "secondary", UNVERIFIED |-> "unverified"]

\* Enum(value): the member with that value (the lookup raises when there is none;
\* every stored value was written from a member, so the model's rows always have one)
EnumOf(enum, value) == CHOOSE k \in DOMAIN enum : enum[k] = value

HasMember(enum, value) == \E k \in DOMAIN enum : enum[k] = value

\* json.dumps of one character of a string (ensure_ascii: non-ASCII is escaped)
JsonEscape(c) ==
    IF c \in NonAsciiSet THEN <<"\\", "u">> \o CodePoints[IndexOf(NonAscii, c)]
    ELSE IF c = "\"" THEN <<"\\", "\"">>
    ELSE IF c = "\\" THEN <<"\\", "\\">>
    ELSE <<c>>

RECURSIVE JsonString(_)
JsonString(s) == IF s = <<>> THEN <<>> ELSE JsonEscape(Head(s)) \o JsonString(Tail(s))

\* json.dumps(item.keywords): ["k1", "k2"]
JsonDumps(keywords) ==
    <<"[">> \o
    Join([i \in 1..Len(keywords) |-> <<"\"">> \o JsonString(keywords[i]) \o <<"\"">>],
         <<",", " ">>) \o
    <<"]">>

RECURSIVE JsonParse(_, _, _, _, _)
\* the scanner of json.loads on a list of strings: t the text, i the position,
\* inStr whether a string is open, cur its characters so far, acc the strings read
JsonParse(t, i, inStr, cur, acc) ==
    IF i > Len(t) THEN acc
    ELSE IF ~inStr
         THEN JsonParse(t, i + 1, t[i] = "\"", <<>>, acc)
         ELSE IF t[i] = "\"" THEN JsonParse(t, i + 1, FALSE, <<>>, Append(acc, cur))
         ELSE IF t[i] = "\\"
              THEN IF t[i + 1] = "u"
                   THEN JsonParse(t, i + 6, TRUE,
                            Append(cur, NonAscii[IndexOf(CodePoints, SubSeq(t, i + 2, i + 5))]),
                            acc)
                   ELSE JsonParse(t, i + 2, TRUE, Append(cur, t[i + 1]), acc)
              ELSE JsonParse(t, i + 1, TRUE, Append(cur, t[i]), acc)

\* json.loads(row_dict['keywords'])
JsonLoads(text) == JsonParse(text, 1, FALSE, <<>>, <<>>)

----------------------------------------------------------------------------
(* The inputs: KnowledgeItem payloads *)

S_rent == <<"r","e","n","t">>
S_tax == <<"t","a","x">>
S_plan == <<"p","l","a","n">>
S_housing == <<"h","o","u","s","i","n","g">>
S_economy == <<"e","c","o","n","o","m","y">>
S_taxation == <<"t","a","x","a","t","i","o","n">>
S_vivienda == <<"v","i","v","i","e","n","d","a">>
S_campaign == <<"c","a","m","p","a","i","g","n">>

Source(url, credibility) ==
    [url |-> url, title |-> "Ali 2025 Campaign", source_type |-> "website",
     credibility |-> credibility, language |-> "en"]

\* id a, first version: two sources, a keyword with a hyphen
ItemA1 ==
    [id |-> "a", content |-> <<"l","o","w"," ">> \o S_rent, content_type |-> "FAQ",
     topic |-> S_housing, subtopic |-> NullText,
     keywords |-> <<S_rent, <<"r","-","t">>>>,
     sources |-> <<Source("u1", "PRIMARY"), Source("u2", "VERIFIED")>>,
     confidence_score |-> 10, language |-> "en"]

\* id a, second version: everything differs from the first, one source
ItemA2 ==
    [id |-> "a", content |-> S_tax \o <<" ","#","#","#">>, content_type |-> "POLICY",
     topic |-> S_economy, subtopic |-> S_taxation,
     keywords |-> <<S_tax>>,
     sources |-> <<Source("u3", "SECONDARY")>>,
     confidence_score |-> 10, language |-> "en"]

\* a Spanish item
ItemB ==
    [id |-> "b", content |-> S_plan \o <<" ","d","e"," ">> \o S_vivienda,
     content_type |-> "POLICY", topic |-> S_housing, subtopic |-> NullText,
     keywords |-> <<S_vivienda, S_plan>>,
     sources |-> <<Source("u4", "PRIMARY")>>,
     confidence_score |-> 5, language |-> "es"]

\* a French item without sources, with an upper-case two-word keyword
ItemC ==
    [id |-> "c", content |-> <<"l","o","y","e","r"," ">> \o S_rent,
     content_type |-> "BIOGRAPHY", topic |-> S_campaign, subtopic |-> NullText,
     keywords |-> <<S_rent, <<"R","e","n","t"," ","L","a","w">>>>,
     sources |-> <<>>,
     confidence_score |-> 10, language |-> "fr"]

\* an item whose second source has no credibility member: source.credibility.value
\* raises after the item row and the first source were written
ItemBad ==
    [id |-> "a", content |-> S_plan, content_type |-> "SPEECH",
     topic |-> S_economy, subtopic |-> NullText,
     keywords |-> <<S_plan>>,
     sources |-> <<Source("u5", "UNVERIFIED"), Source("u6", NULL)>>,
     confidence_score |-> 10, language |-> "en"]

Payloads == {ItemA1, ItemA2, ItemB, ItemC, ItemBad}

Ids == {p.id : p \in Payloads}

----------------------------------------------------------------------------
(* The tables and the statements of add_knowledge_item *)

\* the parameter tuple of INSERT OR REPLACE INTO knowledge_items
ItemRow(item) ==
    [id |-> item.id, content |-> item.content,
     content_type |-> ContentType[item.content_type],
     topic |-> item.topic, subtopic |-> item.subtopic,
     keywords |-> JsonDumps(item.keywords),
     confidence_score |-> item.confidence_score, language |-> item.language]

\* the parameter tuple of INSERT INTO sources
SourceRow(item, source) ==
    [knowledge_item_id |-> item.id, url |-> source.url, title |-> source.title,
     source_type |-> source.source_type,
     credibility |-> SourceCredibility[source.credibility],
     language |-> source.language]

\* the parameter tuple of INSERT OR REPLACE INTO knowledge_fts
FtsRow(item) ==
    [id |-> item.id, content |-> item.content, topic |-> item.topic,
     subtopic |-> item.subtopic, keywords |-> Join(item.keywords, <<" ">>)]

\* source.credibility.value evaluates (it raises on a value that is no member)
SourceOk(source) == source.credibility \in DOMAIN SourceCredibility

\* INSERT OR REPLACE INTO knowledge_items: id is the PRIMARY KEY, so the row with
\* the same id is deleted and the new row gets the next rowid
InsertOrReplaceItem(table, row) ==
    SelectSeq(table, LAMBDA r : r.id # row.id) \o <<row>>

\* a faulty DELETE that removes nothing: the sources of the replaced item stay
KeepSources(table, id) == table

\* DELETE FROM sources WHERE knowledge_item_id = ?
DeleteSources(table, id) ==
    SelectSeq(table, LAMBDA r : r.knowledge_item_id # id)

\* INSERT INTO sources
InsertSource(table, row) == Append(table, row)

\* INSERT OR REPLACE INTO knowledge_fts: the fts5 table has no key but its rowid and
\* the statement gives none, so nothing conflicts and the row is added
InsertOrReplaceFts(table, row) == Append(table, row)

\* what a commit leaves in the database file: the transaction's rows
CommitRows(txn) == txn

\* a faulty close that keeps what the open transaction wrote
KeepWrites(db, txn) == txn

\* what closing a connection with an open transaction leaves: the rows as they
\* were, the transaction is rolled back
RollbackRows(db, txn) == db

\* a faulty lock that every connection gets at once
AnyoneWrites(w) == TRUE

\* the first write statement of a transaction takes SQLite's write lock, which
\* one connection holds at a time
CanWrite(w) == lock \in {NoOne, w}

----------------------------------------------------------------------------
(* add_knowledge_item, statement by statement *)

Writers == {"w1", "w2"}

Db == [items |-> items, sources |-> sources, fts |-> fts]

\* add_knowledge_item(item) is called: the connection is opened
AddCall(w, item) ==
    /\ wpc[w] = "idle"
    /\ calls < MaxUpserts
    /\ calls' = calls + 1
    /\ wpc' = [wpc EXCEPT ![w] = "item"]
    /\ witem' = [witem EXCEPT ![w] = item]
    /\ wret' = [wret EXCEPT ![w] = "running"]
    /\ wk' = [wk EXCEPT ![w] = 1]
    /\ sin' = NoSearch
    /\ smatch' = NoMatches
    /\ sout' = Returns(<<>>)
    /\ UNCHANGED <<storeVars, lock, pending, lastGood, committed, readerVars, otherVars>>

\* INSERT OR REPLACE INTO knowledge_items: the implicit BEGIN and the first write
AddInsertItem(w) ==
    /\ wpc[w] = "item"
    /\ CanWrite(w)
    /\ witem[w].content_type \in DOMAIN ContentType
    /\ lock' = w
    /\ pending' = [pending EXCEPT ![w] =
                      [Db EXCEPT !.items = InsertOrReplaceItem(items, ItemRow(witem[w]))]]
    /\ wpc' = [wpc EXCEPT ![w] = "delete"]
    /\ UNCHANGED <<storeVars, witem, wk, wret, calls, lastGood, committed,
                   readerVars, searchVars, otherVars>>

\* DELETE FROM sources WHERE knowledge_item_id = ?
AddDeleteSources(w) ==
    /\ wpc[w] = "delete"
    /\ pending' = [pending EXCEPT ![w].sources = DeleteSources(@, witem[w].id)]
    /\ wk' = [wk EXCEPT ![w] = 1]
    /\ wpc' = [wpc EXCEPT ![w] = "source"]
    /\ UNCHANGED <<storeVars, lock, witem, wret, calls, lastGood, committed,
                   readerVars, searchVars, otherVars>>

\* for source in item.sources: INSERT INTO sources
AddInsertSource(w) ==
    /\ wpc[w] = "source"
    /\ wk[w] <= Len(witem[w].sources)
    /\ SourceOk(witem[w].sources[wk[w]])
    /\ pending' = [pending EXCEPT ![w].sources =
                      InsertSource(@, SourceRow(witem[w], witem[w].sources[wk[w]]))]
    /\ wk' = [wk EXCEPT ![w] = @ + 1]
    /\ UNCHANGED <<storeVars, lock, wpc, witem, wret, calls, lastGood, committed,
                   readerVars, searchVars, otherVars>>

\* INSERT OR REPLACE INTO knowledge_fts, after the last source
AddInsertFts(w) ==
    /\ wpc[w] = "source"
    /\ wk[w] > Len(witem[w].sources)
    /\ pending' = [pending EXCEPT ![w].fts = InsertOrReplaceFts(@, FtsRow(witem[w]))]
    /\ wpc' = [wpc EXCEPT ![w] = "commit"]
    /\ UNCHANGED <<storeVars, lock, witem, wk, wret, calls, lastGood, committed,
                   readerVars, searchVars, otherVars>>

\* conn.commit(); return True (the connection is closed on the way out)
AddCommit(w) ==
    /\ wpc[w] = "commit"
    /\ items' = CommitRows(pending[w]).items
    /\ sources' = CommitRows(pending[w]).sources
    /\ fts' = CommitRows(pending[w]).fts
    /\ lock' = NoOne
    /\ pending' = [pending EXCEPT ![w] = NoTxn]
    /\ wpc' = [wpc EXCEPT ![w] = "idle"]
    /\ wret' = [wret EXCEPT ![w] = "True"]
    /\ lastGood' = [lastGood EXCEPT ![witem[w].id] = witem[w]]
    /\ committed' = committed \cup {witem[w]}
    /\ UNCHANGED <<witem, wk, calls, readerVars, searchVars, otherVars>>

\* a statement raises (a disk or constraint error, the wait for the write lock
\* timing out, an attribute of the item that does not evaluate): the connection
\* is closed without a commit, and the except clause returns False
AddFail(w) ==
    /\ wpc[w] \in {"item", "delete", "source", "commit"}
    /\ LET db == IF lock = w THEN RollbackRows(Db, pending[w]) ELSE Db
       IN /\ items' = db.items
          /\ sources' = db.sources
          /\ fts' = db.fts
    /\ lock' = IF lock = w THEN NoOne ELSE lock
    /\ pending' = [pending EXCEPT ![w] = NoTxn]
    /\ wpc' = [wpc EXCEPT ![w] = "idle"]
    /\ wret' = [wret EXCEPT ![w] = "False"]
    /\ UNCHANGED <<witem, wk, calls, lastGood, committed, readerVars, searchVars, otherVars>>

----------------------------------------------------------------------------
(* get_item_by_id and _row_to_knowledge_item *)

\* the KnowledgeSource built from a sources row
RowToSource(r) ==
    [url |-> r.url, title |-> r.title, source_type |-> r.source_type,
     credibility |-> EnumOf(SourceCredibility, r.credibility),
     language |-> r.language]

\* a faulty SELECT * FROM sources, without the WHERE clause
SelectAllSources(table, id) == table

\* SELECT * FROM sources WHERE knowledge_item_id = ?
SelectSources(table, id) == SelectSeq(table, LAMBDA r : r.knowledge_item_id = id)

\* _row_to_knowledge_item, given the rows its SELECT on sources returned
RowToKnowledgeItem(row, sourceRows) ==
    [id |-> row.id, content |-> row.content,
     content_type |-> EnumOf(ContentType, row.content_type),
     topic |-> row.topic, subtopic |-> row.subtopic,
     keywords |-> JsonLoads(row.keywords),
     sources |-> [i \in 1..Len(sourceRows) |-> RowToSource(sourceRows[i])],
     confidence_score |-> row.confidence_score, language |-> row.language]

\* get_item_by_id(item_id) is called
GetCall(id) ==
    /\ rpc \in {"idle", "returned"}
    /\ rpc' = "select"
    /\ rid' = id
    /\ rrow' = NoItem
    /\ rret' = NoItem
    /\ UNCHANGED <<storeVars, writerVars, searchVars, otherVars>>

\* SELECT * FROM knowledge_items WHERE id = ?; fetchone(); return None if no row
GetSelectItem ==
    /\ rpc = "select"
    /\ LET rows == SelectSeq(items, LAMBDA r : r.id = rid)
       IN IF rows = <<>>
          THEN /\ rpc' = "returned"
               /\ rret' = NoItem
               /\ rrow' = NoItem
          ELSE /\ rpc' = "sources"
               /\ rrow' = rows[1]
               /\ rret' = NoItem
    /\ UNCHANGED <<rid, storeVars, writerVars, searchVars, otherVars>>

\* _row_to_knowledge_item: the SELECT on sources, a statement of its own, and
\* the construction of the KnowledgeItem that is returned
GetSelectSources ==
    /\ rpc = "sources"
    /\ rret' = RowToKnowledgeItem(rrow, SelectSources(sources, rid))
    /\ rpc' = "returned"
    /\ rrow' = NoItem
    /\ UNCHANGED <<rid, storeVars, writerVars, searchVars, otherVars>>

\* a statement of the read raises: the except clause returns None
GetFail ==
    /\ rpc \in {"select", "sources"}
    /\ rret' = NoItem
    /\ rpc' = "returned"
    /\ rrow' = NoItem
    /\ UNCHANGED <<rid, storeVars, writerVars, searchVars, otherVars>>

----------------------------------------------------------------------------
(* search_knowledge: the stages *)

\* a faulty weight of the expansion stage and a faulty score of the topic stage
Unweighted == Frac(10, 10)
ThirdOfTopic == Frac(1, 3)

\* score * weight of search_knowledge, and the flat scores of the stages
WeightExact == Frac(10, 10)
WeightFts == Frac(8, 10)
WeightTopic == Frac(6, 10)
WeightExpansion == Frac(7, 10)
ScoreFts == Frac(7, 10)
ScoreFallback == Frac(4, 10)
ScoreTopicOther == Frac(3, 10)
ScoreTopic == Frac(5, 10)
\* LIMIT of the full-text query, LIMIT and word count of the LIKE queries, and
\* the length a word must exceed to be searched by LIKE
FtsLimit == 10
LikeLimit == 5
LikeWords == 3
LikeMinLen == 2

\* a faulty denominator: the smaller of the two sizes
Min(a, b) == IF a <= b THEN a ELSE b

\* max(len(query_words), len(item_keywords))
Max(a, b) == IF a >= b THEN a ELSE b

RECURSIVE SetToSeq(_)
\* the elements of a set in some order
SetToSeq(S) ==
    IF S = {} THEN <<>>
    ELSE LET x == CHOOSE y \in S : TRUE IN <<x>> \o SetToSeq(S \ {x})

RECURSIVE Flatten(_)
\* the concatenation of a sequence of sequences
Flatten(ss) == IF ss = <<>> THEN <<>> ELSE Head(ss) \o Flatten(Tail(ss))

\* str.strip()
Strip(s) ==
    LET keep == {i \in 1..Len(s) : ~IsSpace(s[i])}
    IN IF keep = {} THEN <<>>
       ELSE SubSeq(s, CHOOSE i \in keep : \A j \in keep : i <= j,
                      CHOOSE i \in keep : \A j \in keep : i >= j)

StopWordsOf(language) ==
    IF language \in DOMAIN StopWords THEN StopWords[language] ELSE {}

\* _normalize_query
NormalizeQuery(query, language) ==
    LET words == Split(Strip(StrLower(query)))
    IN Join(SelectSeqOf(words, StopWordsOf(language)), <<" ">>)

RECURSIVE InsertByConfidence(_, _)
InsertByConfidence(sorted, row) ==
    IF sorted = <<>> THEN <<row>>
    ELSE IF Head(sorted).confidence_score >= row.confidence_score
         THEN <<Head(sorted)>> \o InsertByConfidence(Tail(sorted), row)
         ELSE <<row>> \o sorted

RECURSIVE OrderByConfidence(_)
\* ORDER BY confidence_score DESC: rows of equal confidence stay in the order in
\* which they were visited
OrderByConfidence(rows) ==
    IF rows = <<>> THEN <<>>
    ELSE InsertByConfidence(OrderByConfidence(SubSeq(rows, 1, Len(rows) - 1)),
                            rows[Len(rows)])

\* a faulty WHERE clause that lets every language through
AnyLanguage(row, language) == TRUE

\* WHERE language = ? OR language = 'en'
LanguageMatch(row, language) == row.language = language \/ row.language = "en"

\* the language codes of the items, in the order of the index idx_language
LanguageCodes == <<"ar", "en", "es", "fr">>

\* the rows of knowledge_items WHERE language = ? OR language = 'en' in the order
\* SQLite visits them: it searches idx_language once per language, in the order of
\* the index, and each language's rows come in rowid order
SelectByLanguage(table, language) ==
    Flatten([l \in 1..Len(LanguageCodes) |->
                SelectSeq(table, LAMBDA r : /\ r.language = LanguageCodes[l]
                                            /\ LanguageMatch(r, language))])

\* _row_to_knowledge_item(dict(row), cursor) on the rows of db
ItemOf(db, row) == RowToKnowledgeItem(row, SelectSources(db.sources, row.id))

\* _search_exact_keywords
SearchExactKeywords(db, query, language, fails) ==
    IF fails THEN Raised
    ELSE
    LET query_words == Range(Split(query))
        rows == OrderByConfidence(SelectByLanguage(db.items, language))
        Result(row) ==
            LET item == ItemOf(db, row)
                item_keywords == Range(item.keywords)
                overlap == Cardinality(query_words \cap item_keywords)
            IN IF overlap > 0
               THEN <<[item |-> item,
                       score |-> Frac(overlap, Max(Cardinality(query_words),
                                                   Cardinality(item_keywords)))]>>
               ELSE <<>>
    IN Returns(Flatten([i \in 1..Len(rows) |-> Result(rows[i])]))

\* the case and diacritics folding of the unicode61 tokenizer
FoldChar(c) ==
    LET l == LowerChar(c)
    IN IF l \in AccentedSet THEN UnaccentedOf[l] ELSE l

RECURSIVE FtsTokensFrom(_, _, _, _)
FtsTokensFrom(s, i, cur, acc) ==
    IF i > Len(s)
    THEN IF cur = <<>> THEN acc ELSE acc \cup {cur}
    ELSE IF IsAlnum(s[i])
         THEN FtsTokensFrom(s, i + 1, Append(cur, FoldChar(s[i])), acc)
         ELSE FtsTokensFrom(s, i + 1, <<>>, IF cur = <<>> THEN acc ELSE acc \cup {cur})

\* the tokens fts5 indexes for a column value: the maximal runs of letters and
\* digits, folded; a NULL column has none
FtsTokens(text) == IF text = NullText THEN {} ELSE FtsTokensFrom(text, 1, <<>>, {})

\* knowledge_fts MATCH '"w1" OR "w2" ...': each phrase is one sanitized word, hence
\* one token, and it may occur in any indexed column
FtsMatch(row, clean_words) ==
    LET tokens == FtsTokens(row.content) \cup FtsTokens(row.topic)
                  \cup FtsTokens(row.subtopic) \cup FtsTokens(row.keywords)
    IN \E i \in 1..Len(clean_words) :
           [j \in 1..Len(clean_words[i]) |-> FoldChar(clean_words[i][j])] \in tokens

\* ''.join(c for c in word if c.isalnum())
CleanWord(word) == SelectSeq(word, IsAlnum)

\* the clean_words of _search_fts (without the quotes put around each)
CleanWords(query) ==
    LET words == Split(query)
    IN SelectSeq([i \in 1..Len(words) |-> CleanWord(words[i])], LAMBDA w : w # <<>>)

\* text LIKE '%word%': case-insensitive on ASCII letters (the model's words hold
\* neither of LIKE's wildcards, % and _)
Like(text, word) == Contains(StrLower(text), StrLower(word))

\* _fallback_content_search
FallbackContentSearch(db, query, language, fails) ==
    LET query_words == Take(Split(query), LikeWords)
        searched == SelectSeq(query_words, LAMBDA w : Len(w) > LikeMinLen)
        Rows(word) ==
            Take(OrderByConfidence(SelectSeq(SelectByLanguage(db.items, language),
                     LAMBDA r : Like(r.content, word) \/ Like(r.keywords, word))),
                 LikeLimit)
        Results(word) ==
            LET rows == Rows(word)
            IN [i \in 1..Len(rows) |-> [item |-> ItemOf(db, rows[i]), score |-> ScoreFallback]]
    IN IF fails /\ searched # <<>> THEN Raised
       ELSE Returns(Flatten([i \in 1..Len(searched) |-> Results(searched[i])]))

\* the rows of knowledge_fts JOIN knowledge_items ... MATCH ? AND (language) LIMIT 10
FtsJoin(db, clean_words, language) ==
    LET matching == SelectSeq(db.fts, LAMBDA kf : FtsMatch(kf, clean_words))
        Joined(kf) == SelectSeq(db.items,
                          LAMBDA ki : ki.id = kf.id /\ LanguageMatch(ki, language))
    IN Take(Flatten([i \in 1..Len(matching) |-> Joined(matching[i])]), FtsLimit)

\* _search_fts
SearchFts(db, query, language, fails, fallbackFails) ==
    LET clean_words == CleanWords(query)
    IN IF clean_words = <<>> THEN Returns(<<>>)
       ELSE IF fails THEN FallbackContentSearch(db, query, language, fallbackFails)
       ELSE LET rows == FtsJoin(db, clean_words, language)
            IN Returns([i \in 1..Len(rows) |->
                           [item |-> ItemOf(db, rows[i]), score |-> ScoreFts]])

\* per topic of the hierarchy, the strings _search_by_topic looks for in the query:
\* topic.lower() and each subtopic.lower().replace("_", " ")
TopicNeedles ==
    [i \in 1..Len(TopicHierarchy) |->
        <<StrLower(TopicHierarchy[i].topic)>> \o
        [j \in 1..Len(TopicHierarchy[i].subtopics) |->
            ReplaceUnderscore(StrLower(TopicHierarchy[i].subtopics[j]))]]

\* the list relevant_topics of _search_by_topic: a topic is appended once for its
\* own name and once for each of its subtopics found in the query
RelevantTopics(query) ==
    LET query_lower == StrLower(query)
        Found(i) == SelectSeq(TopicNeedles[i], LAMBDA needle : Contains(query_lower, needle))
    IN Flatten([i \in 1..Len(TopicHierarchy) |->
                   [j \in 1..Len(Found(i)) |-> TopicHierarchy[i].topic]])

\* the rows of knowledge_items WHERE topic IN (...) AND (language = ? OR
\* language = 'en') in the order SQLite visits them: with one placeholder it
\* searches idx_topic, whose rows come in rowid order, with more it searches
\* idx_language
SelectByTopic(table, relevant_topics, language) ==
    IF Len(relevant_topics) = 1
    THEN SelectSeq(table, LAMBDA r : /\ r.topic = relevant_topics[1]
                                     /\ LanguageMatch(r, language))
    ELSE SelectSeq(SelectByLanguage(table, language),
                   LAMBDA r : r.topic \in Range(relevant_topics))

\* _search_by_topic
SearchByTopic(db, query, language, fails) ==
    LET relevant_topics == RelevantTopics(query)
        rows == OrderByConfidence(SelectByTopic(db.items, relevant_topics, language))
        Result(row) ==
            LET item == ItemOf(db, row)
            IN [item |-> item,
                score |-> IF item.topic \in Range(relevant_topics) THEN ScoreTopic
                          ELSE ScoreTopicOther]
    IN IF relevant_topics = <<>> THEN Returns(<<>>)
       ELSE IF fails THEN Raised
       ELSE Returns([i \in 1..Len(rows) |-> Result(rows[i])])

\* per topic and language of the keyword table, [k.lower() for k in translations[language]]
LoweredKeywords ==
    [i \in 1..Len(MultilingualKeywords) |->
        [l \in DOMAIN MultilingualKeywords[i] |->
            {StrLower(k) : k \in Range(MultilingualKeywords[i][l])}]]

\* the expanded_keywords of _search_multilingual_expansion
ExpandedKeywords(query, language) ==
    LET words == Split(query)
        Hit(i) == /\ language \in DOMAIN MultilingualKeywords[i]
                  /\ \E j \in 1..Len(words) :
                         StrLower(words[j]) \in LoweredKeywords[i][language]
    IN UNION {Range(MultilingualKeywords[i].en) :
                 i \in {i \in 1..Len(MultilingualKeywords) : Hit(i)}}

\* _search_multilingual_expansion (the joined set is split again by the exact
\* stage, so the order of the join does not matter)
SearchMultilingualExpansion(db, query, language, fails) ==
    LET expanded_keywords == ExpandedKeywords(query, language)
    IN IF expanded_keywords = {} THEN Returns(<<>>)
       ELSE SearchExactKeywords(db, Join(SetToSeq(expanded_keywords), <<" ">>), "en", fails)

----------------------------------------------------------------------------
(* search_knowledge: weighting, merge, sort, limit *)

\* [(item, score * weight) for item, score in matches]
Weighted(matches, weight) ==
    [i \in 1..Len(matches) |->
        [item |-> matches[i].item, score |-> FMul(matches[i].score, weight)]]

\* a faulty merge in which the later result always replaces the earlier
ReplacesAlways(new, old) == TRUE

\* whether a result replaces the one unique_results holds for the same id
Replaces(new, old) == FLess(old.score, new.score)

RECURSIVE MergeUnique(_, _)
\* the loop over results filling unique_results: a dict, so an id keeps the place
\* of its first insertion; unique is the dict's values in that order
MergeUnique(unique, results) ==
    IF results = <<>> THEN unique
    ELSE LET r == Head(results)
             at == {i \in 1..Len(unique) : unique[i].item.id = r.item.id}
         IN IF at = {}
            THEN MergeUnique(Append(unique, r), Tail(results))
            ELSE LET i == CHOOSE i \in at : TRUE
                 IN IF Replaces(r, unique[i])
                    THEN MergeUnique([unique EXCEPT ![i] = r], Tail(results))
                    ELSE MergeUnique(unique, Tail(results))

RECURSIVE InsertByScore(_, _)
InsertByScore(sorted, r) ==
    IF sorted = <<>> THEN <<r>>
    ELSE IF FLeq(r.score, Head(sorted).score)
         THEN <<Head(sorted)>> \o InsertByScore(Tail(sorted), r)
         ELSE <<r>> \o sorted

\* a faulty sort that leaves the values in the order of their insertion
KeepOrder(values) == values

RECURSIVE SortByScore(_)
\* sorted(values, key=score, reverse=True): stable, equal scores keep their order
SortByScore(values) ==
    IF values = <<>> THEN <<>>
    ELSE InsertByScore(SortByScore(SubSeq(values, 1, Len(values) - 1)),
                       values[Len(values)])

\* the stages of search_knowledge in their order: the matches each returned, up
\* to the first that raised; fail names the statement that raises, if any
StageMatches(db, query, language, fail) ==
    LET normalized_query == NormalizeQuery(query, language)
        exact_matches == SearchExactKeywords(db, normalized_query, language, fail = "exact")
        fts_matches == SearchFts(db, normalized_query, language,
                                 fail \in {"fts", "fallback"}, fail = "fallback")
        topic_matches == SearchByTopic(db, normalized_query, language, fail = "topic")
        expanded_matches ==
            IF language # "en"
            THEN SearchMultilingualExpansion(db, query, language, fail = "expansion")
            ELSE Returns(<<>>)
    IN IF fail = "connect" THEN [NoMatches EXCEPT !.raised = TRUE]
       ELSE IF exact_matches.raised THEN [NoMatches EXCEPT !.raised = TRUE]
       ELSE IF fts_matches.raised
            THEN [NoMatches EXCEPT !.raised = TRUE, !.exact = exact_matches.rows]
       ELSE IF topic_matches.raised
            THEN [NoMatches EXCEPT !.raised = TRUE, !.exact = exact_matches.rows,
                                   !.fts = fts_matches.rows]
       ELSE IF expanded_matches.raised
            THEN [NoMatches EXCEPT !.raised = TRUE, !.exact = exact_matches.rows,
                                   !.fts = fts_matches.rows, !.topic = topic_matches.rows]
       ELSE [raised |-> FALSE, exact |-> exact_matches.rows, fts |-> fts_matches.rows,
             topic |-> topic_matches.rows, expanded |-> expanded_matches.rows]

\* the id and the score of each match of each stage
MatchScores(matches) ==
    LET Scores(rows) == [i \in 1..Len(rows) |-> [id |-> rows[i].item.id, score |-> rows[i].score]]
    IN [raised |-> matches.raised, exact |-> Scores(matches.exact), fts |-> Scores(matches.fts),
        topic |-> Scores(matches.topic), expanded |-> Scores(matches.expanded)]

\* the list `results` of search_knowledge after the four results.extend
StageResults(matches) ==
    Weighted(matches.exact, WeightExact) \o Weighted(matches.fts, WeightFts)
    \o Weighted(matches.topic, WeightTopic) \o Weighted(matches.expanded, WeightExpansion)

\* a faulty except clause that lets the exception through
Propagate(outcome) == outcome

\* the except clause of search_knowledge: log and return []
OnException(outcome) == IF outcome.raised THEN Returns(<<>>) ELSE outcome

\* a faulty return that ignores the limit
NoLimit(sorted_results, limit) == sorted_results

\* sorted_results[:limit]
Truncate(sorted_results, limit) == Take(sorted_results, limit)

\* the sorted_results of search_knowledge, or the exception raised before them
SortedResults(matches) ==
    IF matches.raised THEN Raised
    ELSE Returns(SortByScore(MergeUnique(<<>>, StageResults(matches))))

\* the return statements of search_knowledge, given the outcome of its try block
Return(sorted_results, limit) ==
    OnException(IF sorted_results.raised THEN Raised
                ELSE Returns(Truncate(sorted_results.rows, limit)))

\* search_knowledge
SearchKnowledge(db, query, language, limit, fail) ==
    Return(SortedResults(StageMatches(db, query, language, fail)), limit)

----------------------------------------------------------------------------
(* The inputs of search_knowledge *)

Q_rent == S_rent
Q_mixed == <<"r","e">> \o S_housing \o <<" ","r","-","t">>
Q_symbols == <<"#","#","#"," ","$","$","$">>
Q_stop == <<" ","T","h","e"," ","R","e","n","t"," ","i","s"," ","l","o","w"," ">>
Q_topic == S_housing \o <<" ">> \o S_tax
Q_vivienda == <<"e","l"," ">> \o S_plan \o <<" ","d","e"," ">> \o S_vivienda

Q_two == S_rent \o <<" ">> \o Q_vivienda

Queries == {Q_rent, Q_mixed, Q_symbols, Q_stop, Q_topic, Q_vivienda, Q_two}

Languages == {"en", "es"}

Limits == (-1)..MaxLimit

\* where a statement of the search may raise: nowhere, opening the connection,
\* the exact-keyword query, the MATCH query (the LIKE queries then run), the MATCH
\* and the LIKE queries, the topic query, the expansion's query
FailPoints == {"none", "connect", "exact", "fts", "fallback", "topic", "expansion"}

\* search_knowledge(query, language, limit), for every limit, on the committed rows. It reads
\* committed rows only and writes nothing, so it is taken between two calls of
\* add_knowledge_item, once per state of the store and argument list.
Search(query, language, fail) ==
    /\ \A w \in Writers : wpc[w] = "idle"
    /\ sin = NoSearch
    /\ \E matches \in {StageMatches(Db, query, language, fail)} :
       \E sorted_results \in {SortedResults(matches)} :
       \E limit \in Limits :
           /\ sin' = [query |-> query, language |-> language,
                      limit |-> limit, fail |-> fail]
           /\ smatch' = MatchScores(matches)
           /\ sout' = Return(sorted_results, limit)
    /\ UNCHANGED <<storeVars, writerVars, readerVars, otherVars>>

----------------------------------------------------------------------------
(* generate_response (backend/src/enhanced_response_generator.py) *)

FAdd(a, b) == Frac(a.n * b.d + b.n * a.d, a.d * b.d)

FDiv(a, b) == Frac(a.n * b.d, a.d * b.n)

FMin(a, b) == IF FLeq(a, b) THEN a ELSE b

\* no ResponseContext, no result
NoContext == [detected_language |-> NULL]
NoResult == [response_type |-> NULL]

\* relevant_facts[:5] of _filter_relevant_facts and relevant_facts[:3] of the sources
MaxRelevantFacts == 5
MaxResponseSources == 3
\* self.preferred_model (the default of O3_MODEL) and the two models tried after it
PreferredModel == "o3-mini"
Models == <<PreferredModel, "o1-mini", "gpt-4-turbo-preview">>
\* the defaults of ResponseContext
DefaultThreshold == Frac(3, 10)
DefaultResponseLength == 1500

\* a faulty test that lets every fact through
QualifiesAlways(score, threshold) == TRUE

\* score >= context.confidence_threshold
Qualifies(score, threshold) == FLeq(threshold, score)

\* _filter_relevant_facts: the facts at or above the threshold, sorted by score
\* (list.sort is stable), the first five of them
FilterRelevantFacts(context) ==
    Take(SortByScore(SelectSeq(context.retrieved_facts,
                               LAMBDA f : Qualifies(f.score, context.confidence_threshold))),
         MaxRelevantFacts)

\* the credibility_weight dict of _calculate_confidence_score
CredibilityWeights ==
    [primary |-> Frac(10, 10), verified |-> Frac(8, 10),
     secondary |-> Frac(6, 10), unverified |-> Frac(3, 10)]

\* a faulty weighting that counts every source alike
SameWeight(item) == Frac(10, 10)

\* {...}.get(item.sources[0].credibility.value if item.sources else 'unverified', 0.3)
CredibilityWeight(item) ==
    LET key == IF item.sources # <<>>
               THEN SourceCredibility[item.sources[1].credibility]
               ELSE "unverified"
    IN IF key \in DOMAIN CredibilityWeights THEN CredibilityWeights[key] ELSE Frac(3, 10)

RECURSIVE TotalScore(_)
\* total_score after the loop over the facts
TotalScore(facts) ==
    IF facts = <<>> THEN Frac(0, 1)
    ELSE FAdd(TotalScore(SubSeq(facts, 1, Len(facts) - 1)),
              FMul(facts[Len(facts)].score, CredibilityWeight(facts[Len(facts)].item)))

RECURSIVE TotalWeight(_)
\* total_weight after the loop over the facts
TotalWeight(facts) ==
    IF facts = <<>> THEN Frac(0, 1)
    ELSE FAdd(TotalWeight(SubSeq(facts, 1, Len(facts) - 1)),
              CredibilityWeight(facts[Len(facts)].item))

\* _calculate_confidence_score
CalculateConfidenceScore(context, facts) ==
    IF facts = <<>> THEN Frac(1, 10)
    ELSE IF TotalWeight(facts).n = 0 THEN Frac(1, 10)
    ELSE FMin(FDiv(TotalScore(facts), TotalWeight(facts)), Frac(1, 1))

\* fallback_responses, each text by its first words (a character outside
\* Latin-1 is written as its code point)
FallbackResponses ==
    [en |-> <<"T","h","a","n","k"," ","y","o","u"," ","f","o","r"," ","y","o","u","r"," ","q","u","e","s","t","i","o","n">>,
     es |-> <<"G","r","a","c","i","a","s"," ","p","o","r"," ","t","u"," ","p","r","e","g","u","n","t","a">>,
     ar |-> <<"U+0634","U+0643","U+0631","U+0627","U+064B">>,
     fr |-> <<"M","e","r","c","i"," ","p","o","u","r"," ","v","o","t","r","e"," ","q","u","e","s","t","i","o","n">>]

\* a faulty fallback that answers in English whatever the language
EnglishFallback(context) ==
    [response |-> FallbackResponses["en"],
     language |-> context.detected_language,
     confidence_score |-> Frac(1, 10),
     sources |-> <<>>,
     topics_covered |-> {},
     response_type |-> "fallback"]

\* _generate_fallback_response
GenerateFallbackResponse(context) ==
    [response |-> IF context.detected_language \in DOMAIN FallbackResponses
                  THEN FallbackResponses[context.detected_language]
                  ELSE FallbackResponses["en"],
     language |-> context.detected_language,
     confidence_score |-> Frac(1, 10),
     sources |-> <<>>,
     topics_covered |-> {},
     response_type |-> "fallback"]

RECURSIVE SplitOn(_, _, _)
\* str.split(sep): the pieces between the occurrences of sep, found left to right
SplitOn(s, sep, cur) ==
    IF s = <<>> THEN <<cur>>
    ELSE IF Len(s) >= Len(sep) /\ SubSeq(s, 1, Len(sep)) = sep
         THEN <<cur>> \o SplitOn(SubSeq(s, Len(sep) + 1, Len(s)), sep, <<>>)
         ELSE SplitOn(Tail(s), sep, Append(cur, Head(s)))

RECURSIVE Replace(_, _, _)
\* str.replace(old, new)
Replace(s, old, new) ==
    IF s = <<>> THEN <<>>
    ELSE IF Len(s) >= Len(old) /\ SubSeq(s, 1, Len(old)) = old
         THEN new \o Replace(SubSeq(s, Len(old) + 1, Len(s)), old, new)
         ELSE <<Head(s)>> \o Replace(Tail(s), old, new)

RECURSIVE TruncateSentences(_, _, _)
\* the loop of _post_process_response: the leading sentences that fit
TruncateSentences(sentences, current_length, max_response_length) ==
    IF sentences = <<>> THEN <<>>
    ELSE IF current_length + Len(Head(sentences)) + 2 <= max_response_length
         THEN <<Head(sentences)>>
              \o TruncateSentences(Tail(sentences),
                                   current_length + Len(Head(sentences)) + 2,
                                   max_response_length)
         ELSE <<>>

\* _post_process_response
PostProcessResponse(response, context) ==
    LET sep == <<".", " ">>
        joined == Join(TruncateSentences(SplitOn(response, sep, <<>>), 0,
                                         context.max_response_length), sep)
        cut == IF Len(response) > context.max_response_length
               THEN IF joined # <<>> /\ joined[Len(joined)] # "."
                    THEN Append(joined, ".") ELSE joined
               ELSE response
        name == <<"M","u","s","s","a","b">>
    IN IF context.detected_language # "en" /\ ~Contains(cut, name)
       THEN Replace(Replace(cut, <<"t","h","e"," ","c","a","n","d","i","d","a","t","e">>, name), <<"h","e"," ">>, name \o <<" ">>)
       ELSE cut

\* what the caller of generate_response would get from a call that raises
GenerateRaised == [raised |-> TRUE]

\* a faulty handler that lets the exception reach the caller
Reraise(context) == GenerateRaised

\* the except clause of generate_response: the fallback response is returned
OnGenerateError(context) == GenerateFallbackResponse(context)

\* KnowledgeSource.to_dict
SourceToDict(source) ==
    [url |-> source.url, title |-> source.title, source_type |-> source.source_type,
     credibility |-> SourceCredibility[source.credibility], language |-> source.language]

\* whether item.sources[0] raises for one of relevant_facts[:3]
SourcesRaise(facts) ==
    \E i \in 1..Len(Take(facts, MaxResponseSources)) : facts[i].item.sources = <<>>

\* the dict generate_response builds after the model chain returned a text; the
\* IndexError of item.sources[0] is caught by its except clause
EnhancedResponse(context, facts, text) ==
    IF SourcesRaise(facts) THEN OnGenerateError(context)
    ELSE [response |-> PostProcessResponse(text, context),
          language |-> context.detected_language,
          confidence_score |-> CalculateConfidenceScore(context, facts),
          sources |-> [i \in 1..Len(Take(facts, MaxResponseSources)) |->
                          SourceToDict(facts[i].item.sources[1])],
          topics_covered |-> {facts[i].item.topic : i \in 1..Len(facts)},
          response_type |-> "enhanced_o3_pro"]

(* The inputs of generate_response *)

\* longest list of retrieved facts drawn freely; LongFacts are longer
MaxFacts == 2
\* a max_response_length that the longer model texts exceed
ShortResponseLength == 16

\* a news item with a verified source and an item with an unverified one
ItemNews ==
    [id |-> "n", content |-> S_tax \o <<" ">> \o S_plan, content_type |-> "NEWS_ARTICLE",
     topic |-> S_economy, subtopic |-> S_taxation,
     keywords |-> <<S_tax>>,
     sources |-> <<Source("u7", "VERIFIED")>>,
     confidence_score |-> 9, language |-> "en"]

ItemRumour ==
    [id |-> "r", content |-> S_rent \o <<" ">> \o S_plan, content_type |-> "SPEECH",
     topic |-> S_campaign, subtopic |-> NullText,
     keywords |-> <<S_rent>>,
     sources |-> <<Source("u8", "UNVERIFIED")>>,
     confidence_score |-> 5, language |-> "en"]

FactItems == {ItemA1, ItemA2, ItemC, ItemNews, ItemRumour}
FactScores == {Frac(1, 20), Frac(3, 10), Frac(1, 2), Frac(1, 1)}
Facts == [item : FactItems, score : FactScores]

Fact(item, n, d) == [item |-> item, score |-> Frac(n, d)]

\* lists of more than five facts: unsorted, with equal scores, with and without a
\* fact that has no source among the first three
LongFacts ==
    { <<Fact(ItemA2, 3, 10), Fact(ItemA1, 1, 1), Fact(ItemNews, 1, 2), Fact(ItemRumour, 1, 20),
        Fact(ItemA1, 1, 2), Fact(ItemRumour, 1, 1), Fact(ItemA2, 1, 2), Fact(ItemNews, 3, 10)>>,
      <<Fact(ItemC, 3, 10), Fact(ItemA1, 1, 2), Fact(ItemNews, 1, 2), Fact(ItemA2, 1, 2),
        Fact(ItemRumour, 1, 1), Fact(ItemA1, 3, 10), Fact(ItemC, 1, 2)>>,
      <<Fact(ItemA1, 1, 2), Fact(ItemA2, 1, 2), Fact(ItemNews, 1, 2), Fact(ItemRumour, 1, 2),
        Fact(ItemC, 1, 2), Fact(ItemA1, 1, 1)>> }

FactLists == UNION {[1..n -> Facts] : n \in 0..MaxFacts} \cup LongFacts

Thresholds == {Frac(1, 20), DefaultThreshold, Frac(1, 2)}
DetectedLanguages == {"en", "es", "ar", "fr", "de"}

\* the ResponseContext objects; user_query enters the prompt only and is left out
Contexts ==
    [detected_language : DetectedLanguages, retrieved_facts : FactLists,
     confidence_threshold : Thresholds,
     max_response_length : {ShortResponseLength, DefaultResponseLength}]

\* what a model call gives: an exception (of the request, or of reading
\* choices[0].message.content), or a text
ModelRaises == <<>>
ModelTexts ==
    { <<" ","h","e"," ","c","u","t","s"," ","r","e","n","t","."," ">>,
      <<"M","u","s","s","a","b"," ","b","u","i","l","d","s","."," ","t","h","e"," ","c","a","n","d","i","d","a","t","e"," ","w","i","n","s","."," ","A","l","l">>,
      <<"t","h","e"," ","c","a","n","d","i","d","a","t","e"," ","w","i","n","s","."," ","h","e"," ","l","e","a","d","s">> }

\* generate_response is called with some context and runs up to its first model call, or
\* to the end when no fact is relevant; the generator keeps nothing between calls,
\* so one call is followed
GenerateCall ==
    /\ gpc = "idle"
    /\ \E context \in Contexts :
       \E relevant_facts \in {FilterRelevantFacts(context)} :
           /\ gctx' = context
           /\ gfacts' = relevant_facts
           /\ IF relevant_facts = <<>>
              THEN /\ gout' = GenerateFallbackResponse(context)
                   /\ gpc' = "returned"
              ELSE /\ gout' = NoResult
                   /\ gpc' = "model"
    /\ gcalls' = <<>>
    /\ gtext' = <<>>
    /\ UNCHANGED <<storeVars, writerVars, readerVars, searchVars, langVars, bootVars>>

\* the next model of the chain answers or fails; on an answer generate_response
\* runs to its end, on the third failure the exception reaches its except clause
CallModel(outcome) ==
    /\ gpc = "model"
    /\ Len(gcalls) < Len(Models)
    /\ gcalls' = Append(gcalls, [model |-> Models[Len(gcalls) + 1],
                                 failed |-> outcome = ModelRaises])
    /\ IF outcome # ModelRaises
       THEN \E text \in {Strip(outcome)} :
                /\ gtext' = text
                /\ gout' = EnhancedResponse(gctx, gfacts, text)
                /\ gpc' = "returned"
       ELSE /\ gtext' = gtext
            /\ IF Len(gcalls) + 1 = Len(Models)
               THEN /\ gout' = OnGenerateError(gctx)
                    /\ gpc' = "returned"
               ELSE UNCHANGED <<gout, gpc>>
    /\ UNCHANGED <<gctx, gfacts, storeVars, writerVars, readerVars, searchVars, langVars, bootVars>>

----------------------------------------------------------------------------
(* detect_language (backend/src/knowledge_base.py) *)

\* the accented capitals of Latin-1 that have a pattern as their lower case
AccentedCapitals == <<"Ñ","Ü","É","Á","Í","Ó","Ú","Ç","À","È","Ù","Â","Ê","Î","Ô","Û">>
AccentedSmalls == <<"ñ","ü","é","á","í","ó","ú","ç","à","è","ù","â","ê","î","ô","û">>

\* characters outside Latin-1, written as their code points, and those code
\* points as numbers: the last before the Arabic block, its first, one inside,
\* its last, the first after it
WrittenChars == <<"U+05FF", "U+0600", "U+0645", "U+06FF", "U+0700">>
WrittenCodePoints == <<1535, 1536, 1605, 1791, 1792>>

\* the ends of the range [\u0600-\u06FF]
ArabicFirst == 1536
ArabicLast == 1791

\* ord(c); the other characters of the model are in Latin-1
CodePoint(c) ==
    IF c \in Range(WrittenChars) THEN WrittenCodePoints[IndexOf(WrittenChars, c)] ELSE 255

\* re.search(r'[\u0600-\u06FF]', text)
HasArabic(text) ==
    \E i \in 1..Len(text) :
        CodePoint(text[i]) >= ArabicFirst /\ CodePoint(text[i]) <= ArabicLast

\* a faulty lower() that knows the capitals A to Z only
AsciiLower(c) == LowerChar(c)

\* str.lower() of one character of a text, accented capitals included
LowerLatin(c) ==
    IF c \in Range(AccentedCapitals)
    THEN AccentedSmalls[IndexOf(AccentedCapitals, c)]
    ELSE LowerChar(c)

SpanishPatterns == <<<<"ñ">>, <<"ü">>, <<"é">>, <<"á">>, <<"í">>, <<"ó">>, <<"ú">>>>
FrenchPatterns ==
    <<<<"ç">>, <<"à">>, <<"è">>, <<"ù">>, <<"â">>, <<"ê">>, <<"î">>, <<"ô">>, <<"û">>>>

\* any(pattern in text.lower() for pattern in patterns)
AnyPattern(patterns, text) ==
    \E k \in 1..Len(patterns) :
        Contains([i \in 1..Len(text) |-> LowerLatin(text[i])], patterns[k])

\* detect_language
DetectLanguage(text) ==
    IF HasArabic(text) THEN "ar"
    ELSE IF AnyPattern(SpanishPatterns, text) THEN "es"
    ELSE IF AnyPattern(FrenchPatterns, text) THEN "fr"
    ELSE "en"

\* longest text drawn freely from the characters below
MaxText == 3

DetectChars ==
    {"h", "E", "¿", "á", "ü", "É", "ç", "û", "Ê"} \cup Range(WrittenChars)

T_cual == <<"¿","C","u","á","l"," ","e","s","?">>
T_hello == <<"h","e","l","l","o">>

Texts == UNION {[1..n -> DetectChars] : n \in 0..MaxText} \cup {T_cual, T_hello}

\* detect_language(text) is called; it keeps nothing, so one call is followed
Detect ==
    /\ dlang = "none"
    /\ \E text \in Texts :
           /\ dtext' = text
           /\ dlang' = DetectLanguage(text)
    /\ UNCHANGED <<storeVars, writerVars, readerVars, searchVars, genVars, bootVars>>

----------------------------------------------------------------------------
(* get_statistics (backend/src/knowledge_base.py), the seed data of            *)
(* CampaignDataLoader (backend/src/data_loader.py) and the start of the system *)
(* (test_complete_system.py)                                                   *)

\* the KnowledgeItem a loader builds: one source each; the content is cut to its
\* first word and the keywords to the first one
Seed(id, content, content_type, topic, subtopic, keyword, url, credibility,
     confidence_score, language) ==
    [id |-> id, content |-> content, content_type |-> content_type,
     topic |-> topic, subtopic |-> subtopic, keywords |-> <<keyword>>,
     sources |-> <<Source(url, credibility)>>,
     confidence_score |-> confidence_score, language |-> language]

\* the items of load_comprehensive_faqs, load_news_articles, load_policy_positions,
\* load_biographical_information and load_multilingual_content, in the order of
\* their add_knowledge_item calls
SeedItems == <<
    Seed("faq_experience", <<"W","h","i","l","e">>, "FAQ",
         <<"c","a","n","d","i","d","a","t","e","_","q","u","a","l","i","f","i","c","a","t","i","o","n","s">>, NullText,
         <<"e","x","p","e","r","i","e","n","c","e">>, "s1", "PRIMARY", 10, "en"),
    Seed("faq_policies", <<"C","h","e","c","k">>, "FAQ",
         <<"p","o","l","i","c","y","_","p","l","a","t","f","o","r","m">>, NullText,
         <<"t","a","l","k","i","n","g"," ","p","o","i","n","t","s">>, "s2", "PRIMARY", 10, "en"),
    Seed("faq_taxes_detailed", <<"I">>, "FAQ",
         <<"e","d","u","c","a","t","i","o","n">>, <<"s","c","h","o","o","l","_","b","u","d","g","e","t">>,
         <<"t","a","x","e","s">>, "s3", "PRIMARY", 10, "en"),
    Seed("faq_corruption", <<"M","u","s","s","a","b">>, "FAQ",
         <<"e","t","h","i","c","s">>, NullText,
         <<"c","o","r","r","u","p","t","i","o","n">>, "s4", "PRIMARY", 10, "en"),
    Seed("faq_serious_candidate", <<"A","b","s","o","l","u","t","e","l","y",",">>, "FAQ",
         <<"c","a","n","d","i","d","a","t","e","_","v","i","a","b","i","l","i","t","y">>, NullText,
         <<"s","e","r","i","o","u","s">>, "s5", "PRIMARY", 10, "en"),
    Seed("faq_faith", <<"M","u","s","s","a","b","'","s">>, "FAQ",
         <<"p","e","r","s","o","n","a","l","_","b","a","c","k","g","r","o","u","n","d">>, NullText,
         <<"f","a","i","t","h">>, "s6", "PRIMARY", 10, "en"),
    Seed("faq_safety", <<"M","u","s","s","a","b">>, "FAQ",
         <<"p","u","b","l","i","c","_","s","a","f","e","t","y">>, NullText,
         <<"d","a","n","g","e","r","o","u","s">>, "s7", "PRIMARY", 10, "en"),
    Seed("faq_transit", <<"M","u","s","s","a","b">>, "FAQ",
         <<"t","r","a","n","s","p","o","r","t","a","t","i","o","n">>, NullText,
         <<"t","r","a","n","s","i","t">>, "s8", "PRIMARY", 10, "en"),
    Seed("faq_housing", <<"M","u","s","s","a","b">>, "FAQ",
         <<"h","o","u","s","i","n","g">>, NullText,
         <<"h","o","u","s","i","n","g">>, "s9", "PRIMARY", 10, "en"),
    Seed("faq_jobs", <<"M","u","s","s","a","b">>, "FAQ",
         <<"e","c","o","n","o","m","y">>, <<"j","o","b","_","c","r","e","a","t","i","o","n">>,
         <<"j","o","b","s">>, "s10", "PRIMARY", 10, "en"),
    Seed("faq_schools", <<"M","u","s","s","a","b">>, "FAQ",
         <<"e","d","u","c","a","t","i","o","n">>, <<"s","c","h","o","o","l","_","q","u","a","l","i","t","y">>,
         <<"s","c","h","o","o","l","s">>, "s11", "PRIMARY", 10, "en"),
    Seed("faq_climate", <<"M","u","s","s","a","b">>, "FAQ",
         <<"e","n","v","i","r","o","n","m","e","n","t">>, NullText,
         <<"c","l","i","m","a","t","e">>, "s12", "PRIMARY", 10, "en"),
    Seed("faq_corruption_general", <<"M","u","s","s","a","b">>, "FAQ",
         <<"g","o","v","e","r","n","a","n","c","e">>, <<"e","t","h","i","c","s","_","r","e","f","o","r","m">>,
         <<"c","o","r","r","u","p","t","i","o","n">>, "s13", "PRIMARY", 10, "en"),
    Seed("jc_times_budget_2020", <<"J","e","r","s","e","y">>, "NEWS_ARTICLE",
         <<"e","d","u","c","a","t","i","o","n">>, <<"s","c","h","o","o","l","_","b","u","d","g","e","t">>,
         <<"s","c","h","o","o","l"," ","b","o","a","r","d">>, "s14", "VERIFIED", 9, "en"),
    Seed("hudson_view_ali_criticism_2025", <<"J","e","r","s","e","y">>, "NEWS_ARTICLE",
         <<"e","d","u","c","a","t","i","o","n">>, <<"f","i","s","c","a","l","_","o","v","e","r","s","i","g","h","t">>,
         <<"A","l","i">>, "s15", "VERIFIED", 9, "en"),
    Seed("jc_times_joint_session_2021", <<"J","e","r","s","e","y">>, "NEWS_ARTICLE",
         <<"e","d","u","c","a","t","i","o","n">>, <<"f","u","n","d","i","n","g","_","c","r","i","s","i","s">>,
         <<"M","u","s","s","a","b"," ","A","l","i">>, "s16", "VERIFIED", 9, "en"),
    Seed("policy_housing_comprehensive", <<"M","u","s","s","a","b","'","s">>, "POLICY",
         <<"h","o","u","s","i","n","g">>, <<"c","o","m","p","r","e","h","e","n","s","i","v","e","_","p","l","a","n">>,
         <<"z","o","n","i","n","g"," ","e","x","p","a","n","s","i","o","n">>, "s17", "PRIMARY", 10, "en"),
    Seed("policy_transportation_free_buses", <<"M","u","s","s","a","b">>, "POLICY",
         <<"t","r","a","n","s","p","o","r","t","a","t","i","o","n">>, <<"f","r","e","e","_","t","r","a","n","s","i","t">>,
         <<"f","r","e","e"," ","b","u","s","e","s">>, "s18", "PRIMARY", 10, "en"),
    Seed("policy_police_accountability", <<"M","u","s","s","a","b","'","s">>, "POLICY",
         <<"p","u","b","l","i","c","_","s","a","f","e","t","y">>, <<"p","o","l","i","c","e","_","r","e","f","o","r","m">>,
         <<"p","o","l","i","c","e"," ","a","c","c","o","u","n","t","a","b","i","l","i","t","y">>, "s19", "PRIMARY", 10, "en"),
    Seed("policy_ethics_reform", <<"M","u","s","s","a","b">>, "POLICY",
         <<"g","o","v","e","r","n","a","n","c","e">>, <<"e","t","h","i","c","s","_","r","e","f","o","r","m">>,
         <<"p","a","y","-","t","o","-","p","l","a","y">>, "s20", "PRIMARY", 10, "en"),
    Seed("bio_education_harvard", <<"M","u","s","s","a","b">>, "BIOGRAPHY",
         <<"p","e","r","s","o","n","a","l","_","b","a","c","k","g","r","o","u","n","d">>, <<"e","d","u","c","a","t","i","o","n">>,
         <<"H","a","r","v","a","r","d"," ","L","a","w"," ","S","c","h","o","o","l">>, "s21", "PRIMARY", 10, "en"),
    Seed("bio_health_journey", <<"M","u","s","s","a","b">>, "BIOGRAPHY",
         <<"p","e","r","s","o","n","a","l","_","b","a","c","k","g","r","o","u","n","d">>, <<"h","e","a","l","t","h","_","j","o","u","r","n","e","y">>,
         <<"c","a","n","c","e","r"," ","s","u","r","v","i","v","o","r">>, "s22", "PRIMARY", 10, "en"),
    Seed("bio_school_board_service", <<"M","u","s","s","a","b">>, "BIOGRAPHY",
         <<"p","u","b","l","i","c","_","s","e","r","v","i","c","e">>, <<"s","c","h","o","o","l","_","b","o","a","r","d">>,
         <<"s","c","h","o","o","l"," ","b","o","a","r","d"," ","p","r","e","s","i","d","e","n","t">>, "s23", "PRIMARY", 10, "en"),
    Seed("bio_age_generation", <<"A","t">>, "BIOGRAPHY",
         <<"p","e","r","s","o","n","a","l","_","b","a","c","k","g","r","o","u","n","d">>, <<"g","e","n","e","r","a","t","i","o","n","a","l","_","c","h","a","n","g","e">>,
         <<"2","8"," ","y","e","a","r","s"," ","o","l","d">>, "s24", "PRIMARY", 10, "en"),
    Seed("faq_experience_es", <<"A","u","n","q","u","e">>, "FAQ",
         <<"c","a","n","d","i","d","a","t","e","_","q","u","a","l","i","f","i","c","a","t","i","o","n","s">>, NullText,
         <<"e","x","p","e","r","i","e","n","c","i","a">>, "s25", "PRIMARY", 10, "es"),
    Seed("faq_housing_es", <<"M","u","s","s","a","b">>, "FAQ",
         <<"h","o","u","s","i","n","g">>, NullText,
         <<"v","i","v","i","e","n","d","a">>, "s26", "PRIMARY", 10, "es") >>

SeedIds == {SeedItems[k].id : k \in 1..Len(SeedItems)}

RECURSIVE InsertSources(_, _, _)
\* the loop of INSERT INTO sources over item.sources, from the k-th on
InsertSources(table, item, k) ==
    IF k > Len(item.sources) THEN table
    ELSE InsertSources(InsertSource(table, SourceRow(item, item.sources[k])), item, k + 1)

\* the rows a call of add_knowledge_item has written when it reaches its commit
Written(db, item) ==
    [items |-> InsertOrReplaceItem(db.items, ItemRow(item)),
     sources |-> InsertSources(DeleteSources(db.sources, item.id), item, 1),
     fts |-> InsertOrReplaceFts(db.fts, FtsRow(item))]

\* whether a call of add_knowledge_item for the item returns True: no statement
\* raises and every source has a credibility
AddSucceeds(item, raises) ==
    ~raises /\ \A k \in 1..Len(item.sources) : SourceOk(item.sources[k])

\* add_knowledge_item as one step: the store after the call
AddKnowledgeItem(db, item, raises) ==
    IF AddSucceeds(item, raises)
    THEN CommitRows(Written(db, item))
    ELSE RollbackRows(db, Written(db, item))

\* LIMIT of the topics query
TopTopics == 10

\* the order of two characters of a topic: lower-case letters and the underscore
\* that sorts before them
CharRank(c) == IF c \in Range(Lowers) THEN IndexOf(Lowers, c) ELSE 0

\* a < b for two texts, as SQLite's BINARY collation compares them
TextLess(a, b) ==
    \E k \in 1..Len(b) :
        /\ k <= Len(a) + 1
        /\ \A j \in 1..(k - 1) : a[j] = b[j]
        /\ k = Len(a) + 1 \/ CharRank(a[k]) < CharRank(b[k])

RECURSIVE SortTexts(_)
\* the texts of a set in ascending order
SortTexts(S) ==
    IF S = {} THEN <<>>
    ELSE LET least == CHOOSE t \in S : \A u \in S \ {t} : TextLess(t, u)
         IN <<least>> \o SortTexts(S \ {least})

\* SELECT column, COUNT(*) FROM knowledge_items GROUP BY column, as a dict
CountBy(table, column) ==
    [v \in {table[i][column] : i \in 1..Len(table)} |->
        Cardinality({i \in 1..Len(table) : table[i][column] = v})]

RECURSIVE InsertByCount(_, _)
InsertByCount(sorted, g) ==
    IF sorted = <<>> THEN <<g>>
    ELSE IF g.count <= Head(sorted).count
         THEN <<Head(sorted)>> \o InsertByCount(Tail(sorted), g)
         ELSE <<g>> \o sorted

\* a faulty query without ORDER BY: the groups in the order of the GROUP BY
Unordered(groups) == groups

RECURSIVE OrderByCount(_)
\* ORDER BY COUNT(*) DESC: groups of equal count stay in the order of the GROUP BY
OrderByCount(groups) ==
    IF groups = <<>> THEN <<>>
    ELSE InsertByCount(OrderByCount(SubSeq(groups, 1, Len(groups) - 1)),
                       groups[Len(groups)])

\* the rows of SELECT topic, COUNT(*) ... GROUP BY topic ORDER BY COUNT(*) DESC
\* LIMIT 10: the GROUP BY walks idx_topic, the topics in ascending order
TopicCounts(table) ==
    LET topics == SortTexts({table[i].topic : i \in 1..Len(table)})
        groups == [k \in 1..Len(topics) |->
                      [topic |-> topics[k], count |-> CountBy(table, "topic")[topics[k]]]]
    IN Take(OrderByCount(groups), TopTopics)

\* the dict get_statistics returns when no statement raises; top_topics is kept
\* as the list of its (topic, count) pairs, in the dict's order
GetStatistics(db) ==
    [total_items |-> Len(db.items),
     by_content_type |-> CountBy(db.items, "content_type"),
     by_language |-> CountBy(db.items, "language"),
     top_topics |-> TopicCounts(db.items)]

\* the {} get_statistics returns from its except clause, and no call made
StatisticsFailed == [failed |-> TRUE]
NoStatistics == [called |-> FALSE]

\* stats.get('total_items', 0)
TotalItemsOr0(stats) == IF "total_items" \in DOMAIN stats THEN stats.total_items ELSE 0

\* the test of _load_campaign_data that lets the loader run
StoreReportedEmpty(stats) == ~(TotalItemsOr0(stats) > 0)

RECURSIVE LoadFrom(_, _, _)
\* load_all_data from the k-th item on: an add that fails is logged and the
\* loading goes on; failing holds the positions of the adds that fail
LoadFrom(db, k, failing) ==
    IF k > Len(SeedItems) THEN db
    ELSE CHOOSE loaded \in {LoadFrom(next, k + 1, failing) :
                                next \in {AddKnowledgeItem(db, SeedItems[k], k \in failing)}} :
             TRUE

LoadAllData(db, failing) == LoadFrom(db, 1, failing)

\* the history after load_all_data: the seed items whose add succeeded
GoodAfterLoad(good, failing) ==
    [id \in DOMAIN good \cup {SeedItems[k].id : k \in (1..Len(SeedItems)) \ failing} |->
        IF \E k \in (1..Len(SeedItems)) \ failing : SeedItems[k].id = id
        THEN SeedItems[CHOOSE k \in (1..Len(SeedItems)) \ failing : SeedItems[k].id = id]
        ELSE good[id]]

(* The inputs of the start-up model *)

\* starts of the system in one behaviour
MaxBoots == 2
\* the adds of load_all_data that may fail are those of the first
\* MaxFailingSeed seed items
MaxFailingSeed == 1

\* the sets of positions of SeedItems whose add fails in one load_all_data
FailingSets == SUBSET (1..MaxFailingSeed)

\* a seed id upserted again with another content type, topic and language
SeedUpdate ==
    [id |-> "faq_housing", content |-> S_plan \o <<" ","d","e"," ">> \o S_vivienda,
     content_type |-> "POLICY", topic |-> <<"z","o","n","i","n","g">>,
     subtopic |-> NullText, keywords |-> <<S_vivienda>>,
     sources |-> <<Source("u9", "SECONDARY")>>,
     confidence_score |-> 8, language |-> "es"]

BootPayloads == {ItemA1, SeedUpdate, ItemBad}

\* CompleteCampaignSystem() is constructed: _load_campaign_data asks the store
\* for its statistics and, unless they report items, runs load_all_data and asks
\* again; final_stats['total_items'] raises on the {} of a failed get_statistics
\* and the construction fails
Start(stats_fails, failing, final_fails) ==
    /\ bpc = "down"
    /\ boots < MaxBoots
    /\ boots' = boots + 1
    /\ \E stats \in {IF stats_fails THEN StatisticsFailed ELSE GetStatistics(Db)} :
           IF StoreReportedEmpty(stats)
           THEN \E db \in {LoadAllData(Db, failing)} :
                    /\ items' = db.items
                    /\ sources' = db.sources
                    /\ fts' = db.fts
                    /\ bgood' = GoodAfterLoad(bgood, failing)
                    /\ bfailed' = (bfailed \/ failing # {})
                    /\ bloaded' = TRUE
                    /\ bpc' = IF final_fails THEN "down" ELSE "up"
           ELSE /\ bloaded' = FALSE
                /\ bpc' = "up"
                /\ UNCHANGED <<storeVars, bgood, bfailed>>
    /\ bstats' = NoStatistics
    /\ sin' = NoSearch
    /\ smatch' = NoMatches
    /\ sout' = Returns(<<>>)
    /\ UNCHANGED <<writerVars, readerVars, genVars, langVars>>

\* the process ends
Stop ==
    /\ bpc = "up"
    /\ bpc' = "down"
    /\ UNCHANGED <<boots, bloaded, bstats, bgood, bfailed, storeVars, writerVars,
                   readerVars, searchVars, genVars, langVars>>

\* add_knowledge_item(item) runs from its call to its return, by this process
\* or by another one that uses the store file
AddItem(item, raises) ==
    /\ calls < MaxUpserts
    /\ calls' = calls + 1
    /\ \E db \in {AddKnowledgeItem(Db, item, raises)} :
           /\ items' = db.items
           /\ sources' = db.sources
           /\ fts' = db.fts
    /\ IF AddSucceeds(item, raises)
       THEN /\ bgood' = [id \in DOMAIN bgood \cup {item.id} |->
                            IF id = item.id THEN item ELSE bgood[id]]
            /\ bfailed' = bfailed
       ELSE /\ bgood' = bgood
            /\ bfailed' = TRUE
    /\ bstats' = NoStatistics
    /\ sin' = NoSearch
    /\ smatch' = NoMatches
    /\ sout' = Returns(<<>>)
    /\ UNCHANGED <<bpc, boots, bloaded, lock, wpc, witem, wk, pending, wret,
                   lastGood, committed, readerVars, genVars, langVars>>

\* get_statistics() is called; bstats holds what it returned until the store is
\* written or the system started again
Statistics(fails) ==
    /\ bstats = NoStatistics
    /\ bstats' = IF fails THEN StatisticsFailed ELSE GetStatistics(Db)
    /\ UNCHANGED <<bpc, boots, bloaded, bgood, bfailed, storeVars, writerVars,
                   readerVars, searchVars, genVars, langVars>>

----------------------------------------------------------------------------
(* search_knowledge on a store filled by whole calls of add_knowledge_item and *)
(* by the data loader                                                          *)

\* the default of the parameter limit
DefaultLimit == 10

\* an English item none of whose keywords is a lower-case word
ItemCaps ==
    [id |-> "d", content |-> <<"T","e","n","a","n","t","s">>, content_type |-> "SPEECH",
     topic |-> S_campaign, subtopic |-> NullText,
     keywords |-> <<<<"R","e","n","t">>, <<"r","e","a","l"," ","e","s","t","a","t","e">>>>,
     sources |-> <<Source("u7", "PRIMARY")>>,
     confidence_score |-> 10, language |-> "en"]

\* the experience FAQ of load_comprehensive_faqs
ItemExperience == SeedItems[1]

FindPayloads == {ItemA1, ItemB, ItemC, ItemCaps, ItemExperience}

Q_experience == <<"M","u","s","s","a","b"," ","d","o","e","s","n","'","t"," ","h","a","v","e"," ","a","n","y"," ","e","x","p","e","r","i","e","n","c","e">>
Q_cual == <<"¿","C","u","á","l"," ","e","s"," ","e","l"," ","p","l","a","n"," ","d","e"," ","v","i","v","i","e","n","d","a"," ","d","e"," ","M","u","s","s","a","b","?">>
Q_control == <<"R","e","n","t"," ","c","o","n","t","r","o","l"," ","l","a","w">>
Q_le == <<"L","e"," ">> \o S_rent

FindQueries == {Q_experience, Q_cual, Q_two, Q_topic, Q_control, Q_le}

FindLanguages == {"en", "es", "fr"}

\* search_knowledge(query, language) with the default limit, no statement
\* raising; sin, smatch and sout hold the call until the store is written
Find(query, language) ==
    /\ sin = NoSearch
    /\ \E matches \in {StageMatches(Db, query, language, "none")} :
           /\ sin' = [query |-> query, language |-> language,
                      limit |-> DefaultLimit, fail |-> "none"]
           /\ smatch' = MatchScores(matches)
           /\ sout' = Return(SortedResults(matches), DefaultLimit)
    /\ UNCHANGED <<storeVars, writerVars, readerVars, otherVars>>

----------------------------------------------------------------------------
(* Specifications *)

Init ==
    /\ items = <<>>
    /\ sources = <<>>
    /\ fts = <<>>
    /\ lock = NoOne
    /\ wpc = [w \in Writers |-> "idle"]
    /\ witem = [w \in Writers |-> NoItem]
    /\ wk = [w \in Writers |-> 1]
    /\ pending = [w \in Writers |-> NoTxn]
    /\ wret = [w \in Writers |-> "none"]
    /\ calls = 0
    /\ lastGood = [id \in Ids |-> NoItem]
    /\ committed = {}
    /\ rpc = "idle"
    /\ rid = NULL
    /\ rrow = NoItem
    /\ rret = NoItem
    /\ sin = NoSearch
    /\ smatch = NoMatches
    /\ sout = Returns(<<>>)
    /\ gpc = "idle"
    /\ gctx = NoContext
    /\ gfacts = <<>>
    /\ gcalls = <<>>
    /\ gtext = <<>>
    /\ gout = NoResult
    /\ dtext = <<>>
    /\ dlang = "none"
    /\ bpc = "down"
    /\ boots = 0
    /\ bloaded = FALSE
    /\ bstats = NoStatistics
    /\ bgood = <<>>
    /\ bfailed = FALSE

\* two connections writing and one reading, statements interleaved
NextConc ==
    \/ \E w \in Writers, item \in Payloads : AddCall(w, item)
    \/ \E w \in Writers : AddInsertItem(w)
    \/ \E w \in Writers : AddDeleteSources(w)
    \/ \E w \in Writers : AddInsertSource(w)
    \/ \E w \in Writers : AddInsertFts(w)
    \/ \E w \in Writers : AddCommit(w)
    \/ \E w \in Writers : AddFail(w)
    \/ \E id \in Ids : GetCall(id)
    \/ GetSelectItem
    \/ GetSelectSources
    \/ GetFail

SpecConc == Init /\ [][NextConc]_vars

\* one caller: calls of add_knowledge_item, statement by statement, and searches
Next ==
    \/ \E item \in Payloads : AddCall("w1", item)
    \/ AddInsertItem("w1")
    \/ AddDeleteSources("w1")
    \/ AddInsertSource("w1")
    \/ AddInsertFts("w1")
    \/ AddCommit("w1")
    \/ AddFail("w1")
    \/ \E query \in Queries, language \in Languages, fail \in FailPoints :
           Search(query, language, fail)

Spec == Init /\ [][Next]_vars

\* one call of generate_response and the answers of the models it calls
NextGen ==
    \/ GenerateCall
    \/ \E outcome \in ModelTexts \cup {ModelRaises} : CallModel(outcome)

SpecGen == Init /\ [][NextGen]_vars

\* one call of detect_language
NextLang == Detect

SpecLang == Init /\ [][NextLang]_vars

\* the system started and stopped on one store file, adds between and during
\* its runs, and a call of get_statistics
NextBoot ==
    \/ \E stats_fails, final_fails \in BOOLEAN, failing \in FailingSets :
           Start(stats_fails, failing, final_fails)
    \/ Stop
    \/ \E item \in BootPayloads, raises \in BOOLEAN : AddItem(item, raises)
    \/ \E fails \in BOOLEAN : Statistics(fails)

SpecBoot == Init /\ [][NextBoot]_vars

\* a store filled by the data loader at the start of the system and by whole
\* calls of add_knowledge_item, and searches of it
NextFind ==
    \/ \E failing \in FailingSets : Start(FALSE, failing, FALSE)
    \/ \E item \in FindPayloads : AddItem(item, FALSE)
    \/ \E query \in FindQueries, language \in FindLanguages : Find(query, language)

SpecFind == Init /\ [][NextFind]_vars

----------------------------------------------------------------------------
(* The store after upserts: claims C1 to C3 *)

\* total_items of get_statistics: SELECT COUNT(*) FROM knowledge_items
TotalItems == Len(items)

\* the rows add_knowledge_item writes to sources for an item
SourceRows(item) == [k \in 1..Len(item.sources) |-> SourceRow(item, item.sources[k])]

\* the ids some call has stored
Stored == {id \in Ids : lastGood[id] # NoItem}

\* C1: upserting is idempotent on id. However many calls succeeded for an id, the
\* store holds exactly one knowledge_items row for it, and that row, its source
\* rows and the item read back from them are those of the most recent successful
\* call's payload; total_items counts each stored id once, so upserting an id
\* again leaves it as it was.
C1_UpsertIdempotent ==
    /\ \A id \in Ids :
          LET rows == SelectSeq(items, LAMBDA r : r.id = id)
          IN IF id \in Stored
             THEN /\ rows = <<ItemRow(lastGood[id])>>
                  /\ SelectSources(sources, id) = SourceRows(lastGood[id])
                  /\ ItemOf(Db, rows[1]) = lastGood[id]
             ELSE rows = <<>> /\ SelectSources(sources, id) = <<>>
    /\ TotalItems = Cardinality(Stored)

\* id a was stored twice with different payloads, next to another id
C1_Witness ==
    /\ lastGood["a"] = ItemA2
    /\ ItemA1 \in committed
    /\ lastGood["b"] = ItemB
    /\ wret["w1"] = "True"

\* C2: a call of add_knowledge_item that fails at any statement returns False and
\* leaves the item rows, the source rows and the text-index rows as they were
\* before the call: every step of a call other than the one that commits and
\* returns True leaves the three tables unchanged, and a call ends with True or
\* False.
C2_FailedUpsertChangesNothing ==
    [][/\ (wpc["w1"] # "idle" /\ wret'["w1"] # "True")
            => UNCHANGED <<items, sources, fts>>
       /\ (wpc["w1"] # "idle" /\ wpc'["w1"] = "idle")
            => wret'["w1"] \in {"True", "False"}]_vars

\* a call failed at its second source, after it had written the item row and the
\* first source, and the store still holds the earlier payload of the id
C2_Witness ==
    /\ wret["w1"] = "False"
    /\ witem["w1"] = ItemBad
    /\ wk["w1"] = 2
    /\ items = <<ItemRow(ItemA1)>>
    /\ sources = SourceRows(ItemA1)
    /\ fts = <<FtsRow(ItemA1)>>

\* C3 (as the specification states it): the text index holds exactly one entry per
\* stored id, mirroring the id's current row, and an item found by the full-text
\* query matches it with its current text.
C3_OneIndexEntryPerId ==
    /\ \A id \in Ids :
          SelectSeq(fts, LAMBDA r : r.id = id) =
              IF id \in Stored THEN <<FtsRow(lastGood[id])>> ELSE <<>>
    /\ (sin # NoSearch /\ sin.fail = "none") =>
          \A i \in 1..Len(smatch.fts) :
              FtsMatch(FtsRow(lastGood[smatch.fts[i].id]),
                       CleanWords(NormalizeQuery(sin.query, sin.language)))

----------------------------------------------------------------------------
(* Concurrent callers: claims C4 and C5 *)

\* C4 (as the specification states it): every KnowledgeItem get_item_by_id returns
\* while upserts of its id run has its row fields and its sources from one and
\* the same committed payload.
C4_ReaderSeesOnePayload ==
    (rpc = "returned" /\ rret # NoItem) => rret \in committed

\* C5: concurrent upserts are serialized. At most one call has a transaction
\* open; the item row and the source rows stored for an id are entirely those of
\* one payload, that of the call that committed the id last and returned True;
\* the payload of a call that returned False without an earlier or later
\* successful call of the same payload is nowhere in the tables.
C5_UpsertsSerialized ==
    /\ \A v, w \in Writers : (pending[v] # NoTxn /\ pending[w] # NoTxn) => v = w
    /\ \A id \in Ids :
          /\ lastGood[id] # NoItem => lastGood[id] \in committed
          /\ SelectSeq(items, LAMBDA r : r.id = id) =
                 IF id \in Stored THEN <<ItemRow(lastGood[id])>> ELSE <<>>
          /\ SelectSources(sources, id) =
                 IF id \in Stored THEN SourceRows(lastGood[id]) ELSE <<>>
    /\ \A w \in Writers :
          (wret[w] = "False" /\ witem[w] \notin committed) =>
              /\ \A k \in 1..Len(items) : items[k] # ItemRow(witem[w])
              /\ \A k \in 1..Len(sources) : \A j \in 1..Len(witem[w].sources) :
                     SourceOk(witem[w].sources[j]) =>
                         sources[k] # SourceRow(witem[w], witem[w].sources[j])

\* two calls for id a with different payloads run at once: the first has written
\* its rows and is about to commit, the second waits for the write lock, and the
\* tables still hold the payload an earlier call committed for the id
C5_Witness ==
    /\ witem["w1"] = ItemA1 /\ wpc["w1"] = "commit" /\ lock = "w1"
    /\ witem["w2"] = ItemA2 /\ wpc["w2"] = "item"
    /\ lastGood["a"] = ItemA2
    /\ items = <<ItemRow(ItemA2)>>
    /\ sources = SourceRows(ItemA2)

----------------------------------------------------------------------------
(* search_knowledge: claims C6 to C10 *)

\* the scores the stages gave an id, each times the weight the specification
\* gives its stage: exact 1.0, full-text 0.8, topic 0.6, expansion 0.7
WeightedScoresOf(id) ==
    LET Of(rows, weight) ==
            {FMul(rows[i].score, weight) : i \in {i \in 1..Len(rows) : rows[i].id = id}}
    IN Of(smatch.exact, Frac(10, 10)) \cup Of(smatch.fts, Frac(8, 10))
       \cup Of(smatch.topic, Frac(6, 10)) \cup Of(smatch.expanded, Frac(7, 10))

\* the ids the stages of the last search produced
MatchedIds ==
    {smatch.exact[i].id : i \in 1..Len(smatch.exact)}
    \cup {smatch.fts[i].id : i \in 1..Len(smatch.fts)}
    \cup {smatch.topic[i].id : i \in 1..Len(smatch.topic)}
    \cup {smatch.expanded[i].id : i \in 1..Len(smatch.expanded)}

\* C6: the list search_knowledge returns is sorted by non-increasing score and
\* every score s in it satisfies 0 < s <= 1.
C6_SortedScoresInRange ==
    \A i \in 1..Len(sout.rows) :
        /\ FLess(Frac(0, 1), sout.rows[i].score)
        /\ FLeq(sout.rows[i].score, Frac(1, 1))
        /\ i < Len(sout.rows) => FLeq(sout.rows[i + 1].score, sout.rows[i].score)

\* a search returned two items of different scores, the second of which the
\* stages had produced before the first
C6_Witness ==
    /\ Len(sout.rows) = 2
    /\ FLess(sout.rows[2].score, sout.rows[1].score)
    /\ smatch.exact # <<>>
    /\ smatch.exact[1].id = sout.rows[2].item.id

\* C7: for a limit >= 0 the list search_knowledge returns has no two entries of
\* the same item id and at most limit entries.
C7_UniqueAndLimited ==
    (sin # NoSearch /\ sin.limit >= 0) =>
        /\ \A i, j \in 1..Len(sout.rows) :
               sout.rows[i].item.id = sout.rows[j].item.id => i = j
        /\ Len(sout.rows) <= sin.limit

\* a search with limit 1 whose stages produced two ids, one of them twice,
\* returned one entry
C7_Witness ==
    /\ sin # NoSearch /\ sin.limit = 1
    /\ Cardinality(MatchedIds) = 2
    /\ \E i \in 1..Len(smatch.exact) : \E j \in 1..Len(smatch.topic) :
           smatch.exact[i].id = smatch.topic[j].id
    /\ Len(sout.rows) = 1

\* C8: the merge is by maximum. An id the stages produced is in the result at
\* most once, and its score there is the greatest of its raw scores times the
\* weights 1.0 (exact), 0.8 (full-text), 0.6 (topic), 0.7 (expansion); unless the
\* limit cut the list, every id produced is in the result. An id with raw 0.5 from
\* the exact stage and raw 0.5 from the topic stage alone has score 0.5.
C8_MergeByMaximum ==
    (sin # NoSearch /\ ~smatch.raised) =>
        /\ \A i \in 1..Len(sout.rows) :
               LET scores == WeightedScoresOf(sout.rows[i].item.id)
               IN /\ sout.rows[i].score \in scores
                  /\ \A s \in scores : FLeq(s, sout.rows[i].score)
        /\ \A i, j \in 1..Len(sout.rows) :
               sout.rows[i].item.id = sout.rows[j].item.id => i = j
        /\ sin.limit = MaxLimit /\ Cardinality(MatchedIds) <= MaxLimit =>
               {sout.rows[i].item.id : i \in 1..Len(sout.rows)} = MatchedIds
        /\ \A i \in 1..Len(sout.rows) :
               WeightedScoresOf(sout.rows[i].item.id)
                   = {FMul(Frac(5, 10), Frac(10, 10)), FMul(Frac(5, 10), Frac(6, 10))}
               => sout.rows[i].score = Frac(5, 10)

\* the search found id a with raw score 0.5 in the exact stage and raw score 0.5
\* in the topic stage, in no other, and returned it with score 0.5
C8_Witness ==
    /\ sin # NoSearch
    /\ \E i \in 1..Len(smatch.exact) : smatch.exact[i] = [id |-> "a", score |-> Frac(5, 10)]
    /\ \E i \in 1..Len(smatch.topic) : smatch.topic[i] = [id |-> "a", score |-> Frac(5, 10)]
    /\ \A i \in 1..Len(smatch.fts) : smatch.fts[i].id # "a"
    /\ \A i \in 1..Len(smatch.expanded) : smatch.expanded[i].id # "a"
    /\ \E i \in 1..Len(sout.rows) :
           sout.rows[i].item.id = "a" /\ sout.rows[i].score = Frac(5, 10)

\* C9: search_knowledge never raises. It returns a list whatever the store, the
\* query, the language and the limit; on a store without items the list is empty;
\* when a stage raises (a statement or the reconstruction of a row in it; the
\* full-text stage raises when its substring queries raise too) the list is empty.
C9_SearchNeverRaises ==
    /\ ~sout.raised
    /\ (sin # NoSearch /\ items = <<>>) => sout.rows = <<>>
    /\ smatch.raised => sout.rows = <<>>

\* the topic stage raised after the exact stage had found an item: the search
\* returned the empty list
C9_Witness ==
    /\ sin # NoSearch /\ sin.fail = "topic"
    /\ smatch.raised
    /\ smatch.exact # <<>>
    /\ sout = Returns(<<>>)

\* C10 (as the specification states it): when no token of the query is left after
\* sanitizing, the full-text stage runs the substring stage: every item of the
\* language whose content or keywords contain one of the first three query
\* tokens longer than two characters is produced with raw score 0.4.
C10_EmptySanitizedFallsBack ==
    (sin # NoSearch /\ sin.fail = "none") =>
        LET query == NormalizeQuery(sin.query, sin.language)
            words == SelectSeq(Take(Split(query), 3), LAMBDA w : Len(w) > 2)
        IN CleanWords(query) = <<>> =>
               \A k \in 1..Len(items) :
                   (/\ LanguageMatch(items[k], sin.language)
                    /\ \E i \in 1..Len(words) :
                           Like(items[k].content, words[i]) \/ Like(items[k].keywords, words[i]))
                   => \E i \in 1..Len(smatch.fts) :
                          smatch.fts[i] = [id |-> items[k].id, score |-> Frac(4, 10)]
----------------------------------------------------------------------------
(* The response generator: claims C11 to C16 *)

\* how often a value occurs in a list
Count(s, x) == Cardinality({i \in 1..Len(s) : s[i] = x})

\* the positions of the retrieved facts that score at or above the threshold
Qualifying ==
    {i \in 1..Len(gctx.retrieved_facts) :
        FLeq(gctx.confidence_threshold, gctx.retrieved_facts[i].score)}

\* C11: the selection of _filter_relevant_facts holds only retrieved facts that
\* score at or above the context's threshold, in non-increasing order of score,
\* at most five of them and as many as qualify up to five, and no qualifying
\* fact left out scores higher than a selected one; when every retrieved score
\* is below the threshold the selection is empty and generate_response
\* reports confidence_score 0.1
C11_FilterSelectsTopFacts ==
    gpc # "idle" =>
        /\ \A i \in 1..Len(gfacts) :
               /\ FLeq(gctx.confidence_threshold, gfacts[i].score)
               /\ Count(gfacts, gfacts[i]) <= Count(gctx.retrieved_facts, gfacts[i])
        /\ \A i \in 1..(Len(gfacts) - 1) : FLeq(gfacts[i + 1].score, gfacts[i].score)
        /\ Len(gfacts) <= 5
        /\ Len(gfacts) = IF Cardinality(Qualifying) < 5 THEN Cardinality(Qualifying) ELSE 5
        /\ \A i \in Qualifying :
               \/ Count(gfacts, gctx.retrieved_facts[i])
                      = Count(gctx.retrieved_facts, gctx.retrieved_facts[i])
               \/ FLeq(gctx.retrieved_facts[i].score, gfacts[Len(gfacts)].score)
        /\ Qualifying = {} =>
               /\ gfacts = <<>>
               /\ gpc = "returned"
               /\ gout.confidence_score = Frac(1, 10)

\* more than five facts qualify, one does not, the list came unsorted and the
\* five selected do not all score alike
C11_Witness ==
    /\ gpc # "idle"
    /\ Cardinality(Qualifying) > 5
    /\ Cardinality(Qualifying) < Len(gctx.retrieved_facts)
    /\ FLess(gctx.retrieved_facts[1].score, gctx.retrieved_facts[2].score)
    /\ Len(gfacts) = 5
    /\ FLess(gfacts[5].score, gfacts[1].score)

\* the multiplier of a fact's first source in tenths (an item without sources
\* counts as unverified)
TenthsOf(item) ==
    IF item.sources = <<>> THEN 3
    ELSE CASE item.sources[1].credibility = "PRIMARY" -> 10
           [] item.sources[1].credibility = "VERIFIED" -> 8
           [] item.sources[1].credibility = "SECONDARY" -> 6
           [] item.sources[1].credibility = "UNVERIFIED" -> 3

\* a score of the model in twentieths (its scores are multiples of 1/20)
Twentieths(score) == (score.n * 20) \div score.d

RECURSIVE SumWeights(_)
SumWeights(facts) ==
    IF facts = <<>> THEN 0 ELSE TenthsOf(Head(facts).item) + SumWeights(Tail(facts))

RECURSIVE SumScores(_)
SumScores(facts) ==
    IF facts = <<>> THEN 0 ELSE Twentieths(Head(facts).score) + SumScores(Tail(facts))

RECURSIVE SumWeightedScores(_)
SumWeightedScores(facts) ==
    IF facts = <<>> THEN 0
    ELSE Twentieths(Head(facts).score) * TenthsOf(Head(facts).item)
         + SumWeightedScores(Tail(facts))

\* value = sum(score_i * w_i) / sum(w_i), in whole numbers
IsWeightedAverage(value, facts) ==
    value.n * 20 * SumWeights(facts) = value.d * SumWeightedScores(facts)

\* C12: _calculate_confidence_score returns sum(score_i * w_i) / sum(w_i) over
\* the facts it is given, w_i being 1.0, 0.8, 0.6 or 0.3 for a first source
\* that is primary, verified, secondary or unverified, and 0.1 for no facts;
\* the confidence_score of an enhanced answer is that value for the selection
C12_ConfidenceIsWeightedAverage ==
    gpc # "idle" =>
        /\ CalculateConfidenceScore(gctx, <<>>) = Frac(1, 10)
        /\ \A n \in 1..Len(gctx.retrieved_facts) :
               IsWeightedAverage(
                   CalculateConfidenceScore(gctx, SubSeq(gctx.retrieved_facts, 1, n)),
                   SubSeq(gctx.retrieved_facts, 1, n))
        /\ (gpc = "returned" /\ gout.response_type = "enhanced_o3_pro")
               => IsWeightedAverage(gout.confidence_score, gfacts)

\* an enhanced answer on facts of all four credibilities and two scores, whose
\* confidence is not the plain average of the scores
C12_Witness ==
    /\ gpc = "returned"
    /\ gout.response_type = "enhanced_o3_pro"
    /\ {TenthsOf(gfacts[i].item) : i \in 1..Len(gfacts)} = {10, 8, 6, 3}
    /\ \E i, j \in 1..Len(gfacts) : gfacts[i].score # gfacts[j].score
    /\ gout.confidence_score.n * 20 * Len(gfacts)
           # gout.confidence_score.d * SumScores(gfacts)

\* C13: the confidence_score of every result of generate_response is greater
\* than zero, at least 0.1 and at most 1.0 (the retrieved scores of the model
\* are all in (0, 1])
C13_ConfidenceAtLeastFloor ==
    gpc = "returned" =>
        /\ gout.confidence_score.n > 0
        /\ FLeq(Frac(1, 10), gout.confidence_score)
        /\ FLeq(gout.confidence_score, Frac(1, 1))

\* C14: a call of generate_response ends after at most three model calls and
\* returns, never raises: the result carries a response text, a
\* confidence_score and a response_type that is 'enhanced_o3_pro' or
\* 'fallback'; when every model call failed it is the canned fallback of the
\* context's language with confidence_score 0.1 and no sources
C14_AlwaysReturnsAnAnswer ==
    /\ gpc \in {"idle", "model", "returned"}
    /\ gpc = "model" => Len(gcalls) < 3
    /\ gpc = "returned" =>
        /\ {"response", "confidence_score", "response_type"} \subseteq DOMAIN gout
        /\ gout.response \in Seq(STRING)
        /\ gout.response_type \in {"enhanced_o3_pro", "fallback"}
        /\ (gcalls # <<>> /\ \A i \in 1..Len(gcalls) : gcalls[i].failed)
               => /\ gout.response_type = "fallback"
                  /\ gout.response = GenerateFallbackResponse(gctx).response
                  /\ gout.confidence_score = Frac(1, 10)
                  /\ gout.sources = <<>>

\* a call in Spanish whose three model calls all failed
C14_Witness ==
    /\ gpc = "returned"
    /\ gctx.detected_language = "es"
    /\ Len(gcalls) = 3
    /\ \A i \in 1..3 : gcalls[i].failed
    /\ gout.response = FallbackResponses["es"]

\* the models called so far are the first of the chain, in its order, and every
\* call but the last one failed
ChainInOrder ==
    /\ Len(gcalls) <= 3
    /\ \A i \in 1..Len(gcalls) :
           /\ gcalls[i].model = <<"o3-mini", "o1-mini", "gpt-4-turbo-preview">>[i]
           /\ i < Len(gcalls) => gcalls[i].failed
    /\ (gcalls # <<>> /\ ~gcalls[Len(gcalls)].failed) => gpc = "returned"

\* the text of the model that answered is the response, and a call that reached
\* the models returns the canned fallback only after three failures
AnswerUsed ==
    (gpc = "returned" /\ gcalls # <<>>) =>
        /\ ~gcalls[Len(gcalls)].failed
               => /\ gout.response_type = "enhanced_o3_pro"
                  /\ gout.response = PostProcessResponse(gtext, gctx)
        /\ gout.response_type = "fallback"
               => /\ Len(gcalls) = 3
                  /\ \A i \in 1..3 : gcalls[i].failed

\* C15: the models are called in the order preferred model, o1-mini,
\* gpt-4-turbo-preview, a later one only after every earlier one failed, at
\* most three calls; the first answer ends the chain and its text is the
\* response, and the canned fallback is returned only after all three failed
C15_ModelFallbackOrdering == ChainInOrder /\ AnswerUsed

\* C16: when no fact was retrieved or every retrieved score is below the
\* threshold, generate_response returns at once, without a model call, the
\* fallback text of the detected language (the English one for a language
\* without a text), response_type 'fallback', confidence_score 0.1, no
\* sources and no topics
C16_NoRelevantFactsFallsBack ==
    (gpc # "idle" /\ Qualifying = {}) =>
        /\ gpc = "returned"
        /\ gcalls = <<>>
        /\ gout.response =
               IF gctx.detected_language \in {"en", "es", "ar", "fr"}
               THEN FallbackResponses[gctx.detected_language]
               ELSE FallbackResponses["en"]
        /\ gout.language = gctx.detected_language
        /\ gout.response_type = "fallback"
        /\ gout.confidence_score = Frac(1, 10)
        /\ gout.sources = <<>>
        /\ gout.topics_covered = {}

\* facts were retrieved, all below the threshold, for a language without a
\* fallback text
C16_Witness ==
    /\ gpc = "returned"
    /\ gctx.retrieved_facts # <<>>
    /\ Qualifying = {}
    /\ gctx.detected_language = "de"
    /\ gout.response = FallbackResponses["en"]
    /\ gcalls = <<>>

----------------------------------------------------------------------------
(* Language detection: claim C17 *)

\* the characters of a text
CharsOf(text) == {text[i] : i \in 1..Len(text)}

----------------------------------------------------------------------------
(* Start-up and statistics: claims C18 and C19 *)

\* the stored items with their sources: the ids of the store and their content
StoredItems(db) == {ItemOf(db, db.items[i]) : i \in 1..Len(db.items)}

\* C18: at every start of the system the data loader runs when and only when
\* the store holds no item, and a start on a store that holds items changes
\* neither the set of the stored ids nor their content
C18_SeedOnlyIntoEmptyStore ==
    [][boots' = boots + 1 =>
          /\ bloaded' <=> Len(items) = 0
          /\ Len(items) > 0 =>
                 StoredItems([items |-> items', sources |-> sources', fts |-> fts'])
                     = StoredItems(Db)]_vars

RECURSIVE SumCounts(_)
\* the sum of the counts of a dict value -> count
SumCounts(counts) ==
    IF DOMAIN counts = {} THEN 0
    ELSE LET v == CHOOSE x \in DOMAIN counts : TRUE
         IN counts[v] + SumCounts([x \in DOMAIN counts \ {v} |-> counts[x]])

\* the ids whose latest successful upsert has the given topic
IdsOfTopic(topic) == {id \in DOMAIN bgood : bgood[id].topic = topic}

\* C19: the statistics a successful get_statistics returns reflect exactly the
\* committed upserts: total_items is the number of ids upserted successfully at
\* least once, by_content_type and by_language each sum to total_items and count
\* every id under the content type and the language of its latest successful
\* payload, and top_topics has at most 10 entries, each with the count of its
\* topic and none with a smaller count than a topic left out
C19_StatisticsReflectUpserts ==
    "total_items" \in DOMAIN bstats =>
        /\ bstats.total_items = Cardinality(DOMAIN bgood)
        /\ SumCounts(bstats.by_content_type) = bstats.total_items
        /\ SumCounts(bstats.by_language) = bstats.total_items
        /\ \A id \in DOMAIN bgood :
               /\ ContentType[bgood[id].content_type] \in DOMAIN bstats.by_content_type
               /\ bgood[id].language \in DOMAIN bstats.by_language
        /\ \A v \in DOMAIN bstats.by_content_type :
               bstats.by_content_type[v]
                   = Cardinality({id \in DOMAIN bgood : ContentType[bgood[id].content_type] = v})
        /\ \A v \in DOMAIN bstats.by_language :
               bstats.by_language[v]
                   = Cardinality({id \in DOMAIN bgood : bgood[id].language = v})
        /\ Len(bstats.top_topics) <= 10
        /\ \A k \in 1..Len(bstats.top_topics) :
               /\ bstats.top_topics[k].count
                      = Cardinality(IdsOfTopic(bstats.top_topics[k].topic))
               /\ \A id \in DOMAIN bgood :
                      (\A j \in 1..Len(bstats.top_topics) :
                           bstats.top_topics[j].topic # bgood[id].topic)
                      => Cardinality(IdsOfTopic(bgood[id].topic))
                             <= bstats.top_topics[k].count

\* get_statistics has answered after a failed add and after the seed id
\* faq_housing was upserted again with another content type and language, on a
\* store of more than ten topics, one of them left out of top_topics
C19_Witness ==
    /\ "total_items" \in DOMAIN bstats
    /\ bfailed
    /\ "faq_housing" \in DOMAIN bgood
    /\ bgood["faq_housing"] = SeedUpdate
    /\ bstats.total_items > 10
    /\ \E id \in DOMAIN bgood :
           \A j \in 1..Len(bstats.top_topics) :
               bstats.top_topics[j].topic # bgood[id].topic

----------------------------------------------------------------------------
(* Reading an item back: claim C20 *)

\* C20: get_item_by_id returns None for an id no upsert ever stored; when the
\* row it read is the row of the id's last successful upsert and no upsert of
\* the id committed before its sources were read, the item it returns is that
\* payload: content, content type, topic, subtopic, keywords, confidence score
\* and language, and exactly the payload's sources in their order
C20_GetRoundTripsUpsert ==
    [][(rpc # "returned" /\ rpc' = "returned") =>
          /\ lastGood[rid] = NoItem => rret' = NoItem
          /\ (/\ rpc = "sources"
              /\ rret' # NoItem
              /\ lastGood[rid] # NoItem
              /\ rrow = ItemRow(lastGood[rid])) => rret' = lastGood[rid]]_vars

\* id a was upserted with two sources and then with one, no call is in
\* progress, and get_item_by_id has returned the second payload
C20_Witness ==
    /\ rpc = "returned"
    /\ rid = "a"
    /\ ItemA1 \in committed
    /\ lastGood["a"] = ItemA2
    /\ \A w \in Writers : wpc[w] = "idle"
    /\ rret = ItemA2
    /\ Len(rret.sources) < Len(ItemA1.sources)

----------------------------------------------------------------------------
(* The stages of search_knowledge: claims C21 to C29 *)

\* a search was made on the store as it is and no statement of it raised
Searched == sin # NoSearch /\ ~smatch.raised

\* the whitespace-delimited tokens of the normalized query of the search
QueryTokens == Range(Split(NormalizeQuery(sin.query, sin.language)))

\* the keyword set of the payload stored under an id
KeywordsOf(id) == Range(bgood[id].keywords)

\* the stored ids in the target language of the search or in English
Eligible == {id \in DOMAIN bgood : bgood[id].language \in {sin.language, "en"}}

\* the scores a stage gave to an id, one per match
ScoresOf(rows, id) == {i \in 1..Len(rows) : rows[i].id = id}

\* C21: the exact-keyword stage produces every stored item in the target
\* language or in English whose keyword set K meets the token set Q of the
\* normalized query, once and with raw score |Q \cap K| / max(|Q|, |K|), and
\* produces no other item
C21_ExactKeywordScore ==
    Searched =>
        /\ \A i \in 1..Len(smatch.exact) : smatch.exact[i].id \in Eligible
        /\ \A id \in DOMAIN bgood :
               LET overlap == QueryTokens \cap KeywordsOf(id)
                   larger == IF Cardinality(QueryTokens) >= Cardinality(KeywordsOf(id))
                             THEN Cardinality(QueryTokens)
                             ELSE Cardinality(KeywordsOf(id))
               IN IF id \in Eligible /\ overlap # {}
                  THEN /\ Cardinality(ScoresOf(smatch.exact, id)) = 1
                       /\ \A i \in ScoresOf(smatch.exact, id) :
                              /\ smatch.exact[i].score.n * larger
                                     = Cardinality(overlap) * smatch.exact[i].score.d
                              /\ smatch.exact[i].score.n > 0
                  ELSE ScoresOf(smatch.exact, id) = {}

\* a Spanish search of "rent el plan de vivienda" on a store with an English item
\* sharing one token of four, a Spanish item sharing two and a French item with
\* the keyword rent: the first two are produced with 1/4 and 1/2, the third not
C21_Witness ==
    /\ Searched
    /\ sin.query = Q_two
    /\ sin.language = "es"
    /\ {"a", "b", "c"} \subseteq DOMAIN bgood
    /\ bgood["a"] = ItemA1
    /\ \E i \in 1..Len(smatch.exact) :
           smatch.exact[i] = [id |-> "a", score |-> Frac(1, 4)]
    /\ \E i \in 1..Len(smatch.exact) :
           smatch.exact[i] = [id |-> "b", score |-> Frac(1, 2)]
    /\ ScoresOf(smatch.exact, "c") = {}

\* the sanitized tokens of the normalized query of the search
SanitizedTokens == CleanWords(NormalizeQuery(sin.query, sin.language))

\* the text index holds a token of the query for the payload stored under an id
IndexedTextMatches(id) == FtsMatch(FtsRow(bgood[id]), SanitizedTokens)

\* C22: the full-text stage produces, with raw score 0.7, every stored item in
\* the target language or in English whose indexed text holds at least one
\* sanitized token of the query, however many items match
C22_FullTextProducesEveryMatch ==
    Searched =>
        \A id \in Eligible :
            IndexedTextMatches(id) =>
                \E i \in 1..Len(smatch.fts) :
                    smatch.fts[i] = [id |-> id, score |-> Frac(7, 10)]

\* the top-level topics of the taxonomy whose name, or one of whose subtopic
\* labels with underscores read as spaces, is a substring of the normalized query
MatchedTopics ==
    LET normalized == NormalizeQuery(sin.query, sin.language)
        Label(subtopic) == [k \in 1..Len(subtopic) |->
                               IF subtopic[k] = "_" THEN " " ELSE subtopic[k]]
    IN {TopicHierarchy[t].topic : t \in
           {t \in 1..Len(TopicHierarchy) :
               \/ Contains(normalized, TopicHierarchy[t].topic)
               \/ \E j \in 1..Len(TopicHierarchy[t].subtopics) :
                      Contains(normalized, Label(TopicHierarchy[t].subtopics[j]))}}

\* C23: the topic stage produces every stored item in the target language or in
\* English whose topic is a top-level topic named in the normalized query, by its
\* name or by a subtopic label read with spaces, and produces nothing else: nothing
\* at all when the query names no topic
C23_TopicStageProducesTopicItems ==
    Searched =>
        /\ \A id \in Eligible :
               bgood[id].topic \in MatchedTopics => ScoresOf(smatch.topic, id) # {}
        /\ \A i \in 1..Len(smatch.topic) :
               /\ smatch.topic[i].id \in Eligible
               /\ bgood[smatch.topic[i].id].topic \in MatchedTopics
        /\ MatchedTopics = {} => smatch.topic = <<>>

\* the English search "Rent control law" names the subtopic rent_control of
\* housing: the English housing item is produced by the topic stage, a stored
\* item of another topic is not
C23_Witness ==
    /\ Searched
    /\ sin.query = Q_control
    /\ sin.language = "en"
    /\ MatchedTopics = {S_housing}
    /\ {"a", "d"} \subseteq DOMAIN bgood
    /\ ScoresOf(smatch.topic, "a") # {}
    /\ ScoresOf(smatch.topic, "d") = {}

\* the topics of the keyword table with a word, in the target language's list,
\* equal without regard to case to a whitespace token of the query as given
HitTopics ==
    {t \in 1..Len(MultilingualKeywords) :
        /\ sin.language \in DOMAIN MultilingualKeywords[t]
        /\ \E w \in Range(Split(sin.query)) :
           \E k \in Range(MultilingualKeywords[t][sin.language]) :
               StrLower(w) = StrLower(k)}

\* the tokens of the expanded query: the English word lists of the topics hit
ExpandedTokens ==
    UNION {Range(Split(k)) : k \in UNION {Range(MultilingualKeywords[t].en) : t \in HitTopics}}

\* the place of an id in the returned list, if it has one
PlacesOf(id) == {i \in 1..Len(sout.rows) : sout.rows[i].item.id = id}

Scaled(rows, weight) ==
    [i \in 1..Len(rows) |-> [id |-> rows[i].id, score |-> FMul(rows[i].score, weight)]]

\* the weighted matches of the four stages in the order in which they were
\* contributed: exact-keyword, full-text, topic, expansion, each in its row order
Contributions ==
    Scaled(smatch.exact, Frac(10, 10)) \o Scaled(smatch.fts, Frac(8, 10))
    \o Scaled(smatch.topic, Frac(6, 10)) \o Scaled(smatch.expanded, Frac(7, 10))

\* the places at which the score an id is returned with was contributed
MaxContributedAt(row) ==
    {i \in 1..Len(Contributions) :
        Contributions[i] = [id |-> row.item.id, score |-> row.score]}

\* C25: of two returned items with equal final score, the one whose maximal
\* weighted score was contributed first is placed earlier in the result
C25_TieBreakByFirstMaximum ==
    Searched =>
        \A p, q \in 1..Len(sout.rows) :
            (p < q /\ sout.rows[p].score = sout.rows[q].score) =>
                \E i \in MaxContributedAt(sout.rows[p]) :
                    \A j \in MaxContributedAt(sout.rows[q]) : i < j

\* the experience FAQ is stored and no other stored item has a keyword equal to
\* a token of the query
OnlyExperienceShares ==
    /\ "faq_experience" \in DOMAIN bgood
    /\ bgood["faq_experience"] = ItemExperience
    /\ \A id \in DOMAIN bgood \ {"faq_experience"} : QueryTokens \cap KeywordsOf(id) = {}

\* C26: the English search "Mussab doesn't have any experience" of a store that
\* holds the experience FAQ, in which no other item has a keyword equal to a
\* token of the query, returns the experience item first, with a score above 0,
\* whatever the other items
C26_ExperienceItemFirst ==
    (/\ Searched
     /\ sin.query = Q_experience
     /\ sin.language = "en"
     /\ OnlyExperienceShares) =>
        /\ sout.rows # <<>>
        /\ sout.rows[1].item.id = "faq_experience"
        /\ sout.rows[1].score.n > 0

\* the ids a stage of the search produced
ProducedBy(rows) == {rows[i].id : i \in 1..Len(rows)}

\* C27: every item a search returns, and every item any stage produces, is in the
\* requested language or in English; an item stored in another language is never
\* returned; English items are eligible for every requested language, the
\* expansion stage producing English items only
C27_LanguageFilter ==
    Searched =>
        /\ \A p \in 1..Len(sout.rows) :
               sout.rows[p].item.language \in {sin.language, "en"}
        /\ ProducedBy(smatch.exact) \cup ProducedBy(smatch.fts)
               \cup ProducedBy(smatch.topic) \subseteq Eligible
        /\ \A id \in ProducedBy(smatch.expanded) : bgood[id].language = "en"
        /\ \A id \in DOMAIN bgood :
               (bgood[id].language = "en" /\ QueryTokens \cap KeywordsOf(id) # {})
                   => id \in ProducedBy(smatch.exact)

\* the Spanish search "rent el plan de vivienda" on a store with a French item
\* whose content and keywords hold "rent": the English item with keyword rent is
\* returned, the French item is not
C27_Witness ==
    /\ Searched
    /\ sin.query = Q_two
    /\ sin.language = "es"
    /\ {"a", "c"} \subseteq DOMAIN bgood
    /\ bgood["a"] = ItemA1
    /\ bgood["c"].language = "fr"
    /\ IndexedTextMatches("c")
    /\ PlacesOf("a") # {}
    /\ PlacesOf("c") = {}

\* C28: every match of the topic stage has raw score 0.5, the 0.3 of the other
\* branch never occurs, and an item the topic stage alone found is returned with
\* 0.5 * 0.6 = 0.3, a score the default confidence threshold 0.3 lets through
C28_TopicScoreIsHalf ==
    Searched =>
        /\ \A i \in 1..Len(smatch.topic) : smatch.topic[i].score = Frac(1, 2)
        /\ \A p \in 1..Len(sout.rows) :
               LET id == sout.rows[p].item.id
               IN (/\ id \in ProducedBy(smatch.topic)
                   /\ id \notin ProducedBy(smatch.exact) \cup ProducedBy(smatch.fts)
                                  \cup ProducedBy(smatch.expanded)) =>
                      /\ sout.rows[p].score = Frac(3, 10)
                      /\ Qualifies(sout.rows[p].score, DefaultThreshold)

\* the Spanish search "Rent control law" with the Spanish housing item stored:
\* only the topic stage finds it, and it is returned with 3/10
C28_Witness ==
    /\ Searched
    /\ sin.query = Q_control
    /\ sin.language = "es"
    /\ "b" \in DOMAIN bgood
    /\ bgood["b"] = ItemB
    /\ "b" \in ProducedBy(smatch.topic)
    /\ "b" \notin ProducedBy(smatch.exact) \cup ProducedBy(smatch.fts)
                     \cup ProducedBy(smatch.expanded)
    /\ \E p \in PlacesOf("b") : sout.rows[p].score = Frac(3, 10)

\* a keyword with an upper-case character or a space
UpperOrSpaced(word) == \E k \in 1..Len(word) : word[k] \in UpperSet \/ word[k] = " "

\* the keywords of a stored payload that are lower-case words
PlainKeywordsOf(id) == {word \in KeywordsOf(id) : ~UpperOrSpaced(word)}

\* C29: a stored keyword with an upper-case character or a space equals no token
\* of the normalized query and no token of the expanded query, so it adds nothing
\* to the overlap, yet it is counted in the number of keywords under the score;
\* an item all of whose keywords are of that form is produced neither by the
\* exact-keyword stage nor by the expansion stage
C29_VerbatimKeywordMatch ==
    Searched =>
        \A id \in DOMAIN bgood :
            /\ \A word \in KeywordsOf(id) :
                   UpperOrSpaced(word) =>
                       /\ word \notin QueryTokens
                       /\ sin.language # "en" => word \notin ExpandedTokens
            /\ \A i \in ScoresOf(smatch.exact, id) :
                   /\ QueryTokens \cap PlainKeywordsOf(id) # {}
                   /\ smatch.exact[i].score.d * Cardinality(QueryTokens \cap PlainKeywordsOf(id))
                          = smatch.exact[i].score.n
                            * (IF Cardinality(QueryTokens) >= Cardinality(KeywordsOf(id))
                               THEN Cardinality(QueryTokens)
                               ELSE Cardinality(KeywordsOf(id)))
            /\ PlainKeywordsOf(id) = {} =>
                   id \notin ProducedBy(smatch.exact) \cup ProducedBy(smatch.expanded)

\* the French search "Le rent", one token after normalization: the French item
\* with keywords rent and "Rent Law" is produced with 1/2, its second keyword
\* counted under the score, and the English item with the keywords "Rent" and
\* "real estate" is stored and not produced by the exact-keyword stage
C29_Witness ==
    /\ Searched
    /\ sin.query = Q_le
    /\ sin.language = "fr"
    /\ QueryTokens = {S_rent}
    /\ {"c", "d"} \subseteq DOMAIN bgood
    /\ bgood["c"] = ItemC
    /\ bgood["d"] = ItemCaps
    /\ \E i \in 1..Len(smatch.exact) :
           smatch.exact[i] = [id |-> "c", score |-> Frac(1, 2)]
    /\ "d" \notin ProducedBy(smatch.exact)
    /\ "d" \in ProducedBy(smatch.fts)

(* The enhanced response: claim C30 *)

\* the last model call answered
ModelSucceeded == gcalls # <<>> /\ ~gcalls[Len(gcalls)].failed

\* C30: whenever a retrieved fact scores at or above the threshold and a model
\* call succeeded, generate_response returns response_type 'enhanced_o3_pro'
\* with the model's text and one source entry for each of the first three
\* selected facts, also when a selected fact has no sources
C30_EnhancedWhenModelSucceeds ==
    (gpc = "returned" /\ Qualifying # {} /\ ModelSucceeded) =>
        /\ gout.response_type = "enhanced_o3_pro"
        /\ gout.response = PostProcessResponse(gtext, gctx)
        /\ Len(gout.sources) = Len(Take(gfacts, MaxResponseSources))

====
